---- MODULE Spec2Model ----
(***************************************************************************)
(* Tracktonaut: the daily check-in submission procedure save_day           *)
(* (database/03-rpc-save-day.sql), the tables it writes                    *)
(* (database/01-schema.sql), the row-level-security policies               *)
(* (database/02-rls.sql) and the metric management and day-data calls of   *)
(* the web application that run against the same tables.                   *)
(*                                                                         *)
(* SQL NULL / a missing JSON key is the empty tuple, a present value v is  *)
(* the one-element tuple <<v>>.  Text and day ids are tuples of            *)
(* characters.  created_at / updated_at columns are not modelled.          *)
(***************************************************************************)
EXTENDS Integers, Sequences, FiniteSets, TLC

VARIABLES
    metrics,        \* table metrics: id -> row
    metric_entry,   \* table metric_entry: <<user_id, metric_id, day_id>> -> row
    daily_checkin,  \* table daily_checkin: <<user_id, day_id>> -> row
    ret,            \* outcome of the operation that ran last
    stale,          \* check-ins written before the owner's metrics last changed
    tx,             \* save_day calls in flight, one per database session
    rd,             \* a getDayData call in flight
    req,            \* the request the middleware routes
    view,           \* the capture view open in the browser
    now             \* today in the user's timezone, as a day of January 2025

vars == <<metrics, metric_entry, daily_checkin, ret, stale, tx, rd, req, view, now>>

----------------------------------------------------------------------------
\* Nullable values

None == <<>>
Some(v) == <<v>>
IsNull(o) == o = <<>>
NotNull(o) == o # <<>>
Val(o) == o[1]

SetOf(s) == {s[i] : i \in DOMAIN s}

----------------------------------------------------------------------------
\* Bounds of the model

MaxBatch == 2
MaxHops == 3
MaxNow == 16
MaxMetricId == 6

----------------------------------------------------------------------------
\* Program constants

NotesMaxLen == 2000
DefaultScaleMin == 1
DefaultScaleMax == 10
EditWindowDays == 7
StreakLimit == 365

----------------------------------------------------------------------------
\* Input universe

Users == {"u1", "u2"}
Callers == {None} \cup {Some(u) : u \in Users}

\* The user whose days the calls of the sequential specification target.
TargetUsers == {"u1"}

Digit == {"0", "1", "2", "3", "4", "5", "6", "7", "8", "9"}

Day1 == <<"2", "0", "2", "5", "-", "0", "1", "-", "1", "5">>
Day2 == <<"2", "0", "2", "5", "-", "0", "2", "-", "3", "0">>
DayBad == <<"2", "0", "2", "5", "-", "1", "-", "5">>

DayInputs == {Day1, DayBad}

\* Calendar days are the days of January 2025, numbered 1 to 31.
DigitChars == <<"0", "1", "2", "3", "4", "5", "6", "7", "8", "9">>

DigitValue(c) == (CHOOSE i \in DOMAIN DigitChars : DigitChars[i] = c) - 1

\* formatInTimeZone(date, timezone, 'yyyy-MM-dd')
FormatDay(n) ==
    <<"2", "0", "2", "5", "-", "0", "1", "-",
      DigitChars[(n \div 10) + 1], DigitChars[(n % 10) + 1]>>

\* parseISO(dayId)
ParseDay(dayId) == 10 * DigitValue(dayId[9]) + DigitValue(dayId[10])

\* Day ids of the right shape that are no calendar dates, and malformed ones:
\* a letter for a digit, slashes for dashes, an eleventh character.
Day3 == <<"2", "0", "2", "5", "-", "1", "3", "-", "4", "0">>
DayLetter == <<"2", "0", "2", "5", "-", "0", "a", "-", "1", "5">>
DaySlash == <<"2", "0", "2", "5", "/", "0", "1", "/", "1", "5">>
DayLong == <<"2", "0", "2", "5", "-", "0", "1", "-", "1", "5", "5">>
StatusInputs == {"draft", "submitted", "final"}

NoConfig ==
    [scaleMin |-> None, scaleMax |-> None, min |-> None, max |-> None,
     options |-> None]

Metric(user, name, type, required, config) ==
    [user_id |-> user, name |-> name, type |-> type, is_required |-> required,
     config |-> config, archived_at |-> None]

\* The registry of the scenarios: a required rating metric on a 1-10 scale,
\* an optional boolean metric, a required tags metric with options
\* happy / sad, and a metric of another user.
Registry0 ==
    (1 :> Metric("u1", "Mood", "rating", TRUE,
                 [NoConfig EXCEPT !.scaleMin = Some(1), !.scaleMax = Some(10)])) @@
    (2 :> Metric("u1", "Sport", "boolean", FALSE, NoConfig)) @@
    (3 :> Metric("u1", "Feelings", "tags", TRUE,
                 [NoConfig EXCEPT !.options = Some(<<"happy", "sad">>)])) @@
    (4 :> Metric("u2", "Sport", "boolean", TRUE, NoConfig))

\* Eight boolean metrics of u1, all required or all optional.
RegistryWide(required) ==
    [id \in 11..18 |-> Metric("u1", "Habit", "boolean", required, NoConfig)]

NoValue ==
    [bool_value |-> None, int_value |-> None, float_value |-> None,
     text_value |-> None, select_key |-> None, tag_keys |-> None]

Entry(id, value) == [metric_id |-> id] @@ value

IntEntry(id, v) == Entry(id, [NoValue EXCEPT !.int_value = Some(v)])
BoolEntry(id, v) == Entry(id, [NoValue EXCEPT !.bool_value = Some(v)])
TagsEntry(id, v) == Entry(id, [NoValue EXCEPT !.tag_keys = Some(v)])
TextEntry(id, v) == Entry(id, [NoValue EXCEPT !.text_value = Some(v)])
SelectEntry(id, v) == Entry(id, [NoValue EXCEPT !.select_key = Some(v)])

\* A boolean entry that also carries an int_value.
MixedEntry(id) ==
    Entry(id, [NoValue EXCEPT !.bool_value = Some(TRUE), !.int_value = Some(5)])

\* Entries offered to the sequential specification: two valid ratings, a
\* rating out of range, a boolean entry, a boolean entry with a second value
\* field, an entry for the metric of another user.
EntryInputs ==
    { IntEntry(1, 8), IntEntry(1, 3), IntEntry(1, 11), BoolEntry(2, TRUE),
      MixedEntry(2), BoolEntry(4, FALSE) }

\* Entries offered together with metric management: one valid entry for each
\* metric of u1 and a rating out of range.
RegEntryInputs ==
    { IntEntry(1, 8), IntEntry(1, 11), BoolEntry(2, TRUE), TagsEntry(3, <<"happy">>) }

\* Entries offered for five of the eight boolean metrics.
WideEntryInputs == {BoolEntry(id, TRUE) : id \in {11, 12, 13, 14, 18}}

BatchesOf(inputs) == UNION {[1..n -> inputs] : n \in 0..MaxBatch}

Batches == BatchesOf(EntryInputs)

----------------------------------------------------------------------------
\* save_day: validation

OK == "ok"

\* Variant: the month must be 01-12 and the day 01-31.
MatchesDayIdFormatAndCalendar(p_day_id) ==
    /\ Len(p_day_id) = 10
    /\ \A i \in {1, 2, 3, 4, 6, 7, 9, 10} : p_day_id[i] \in Digit
    /\ p_day_id[5] = "-"
    /\ p_day_id[8] = "-"
    /\ \/ p_day_id[6] = "0" /\ p_day_id[7] # "0"
       \/ p_day_id[6] = "1" /\ p_day_id[7] \in {"0", "1", "2"}
    /\ \/ p_day_id[9] = "0" /\ p_day_id[10] # "0"
       \/ p_day_id[9] \in {"1", "2"}
       \/ p_day_id[9] = "3" /\ p_day_id[10] \in {"0", "1"}

\* p_day_id !~ '^\d{4}-\d{2}-\d{2}$'
MatchesDayIdFormat(p_day_id) ==
    /\ Len(p_day_id) = 10
    /\ \A i \in {1, 2, 3, 4, 6, 7, 9, 10} : p_day_id[i] \in Digit
    /\ p_day_id[5] = "-"
    /\ p_day_id[8] = "-"

\* Variant: the lookup does not filter on user_id.
LookupMetricAnyOwner(registry, p_user_id, metric_id) ==
    {id \in DOMAIN registry :
        /\ id = metric_id
        /\ IsNull(registry[id].archived_at)}

\* SELECT * INTO v_metric FROM metrics WHERE id = .. AND user_id = p_user_id
\*   AND archived_at IS NULL
LookupMetric(registry, p_user_id, metric_id) ==
    {id \in DOMAIN registry :
        /\ id = metric_id
        /\ registry[id].user_id = p_user_id
        /\ IsNull(registry[id].archived_at)}

\* SELECT ARRAY_AGG(opt->>'key') FROM jsonb_array_elements(v_config->'options'):
\* NULL when the options are missing or empty.
ValidKeys(v_config) ==
    IF IsNull(v_config.options) \/ Len(Val(v_config.options)) = 0
    THEN None
    ELSE Some(SetOf(Val(v_config.options)))

\* NOT (key = ANY(v_valid_keys)) is TRUE; a NULL array makes it NULL, and
\* IF NULL THEN does not take the branch.
NotAnyIsTrue(key, v_valid_keys) ==
    /\ NotNull(v_valid_keys)
    /\ key \notin Val(v_valid_keys)

\* Variant: the upper bound of the scale is excluded.
RatingErrorExcludesMax(v_config, v_entry) ==
    LET v_scale_min == IF IsNull(v_config.scaleMin) THEN DefaultScaleMin
                       ELSE Val(v_config.scaleMin)
        v_scale_max == IF IsNull(v_config.scaleMax) THEN DefaultScaleMax
                       ELSE Val(v_config.scaleMax)
    IN  IF IsNull(v_entry.int_value) THEN "requires int_value"
        ELSE IF \/ Val(v_entry.int_value) < v_scale_min
                \/ Val(v_entry.int_value) >= v_scale_max
             THEN "rating out of range"
             ELSE OK

\* WHEN 'rating': COALESCE of the configured scale with 1 and 10, then the
\* presence and the range of int_value.
RatingError(v_config, v_entry) ==
    LET v_scale_min == IF IsNull(v_config.scaleMin) THEN DefaultScaleMin
                       ELSE Val(v_config.scaleMin)
        v_scale_max == IF IsNull(v_config.scaleMax) THEN DefaultScaleMax
                       ELSE Val(v_config.scaleMax)
    IN  IF IsNull(v_entry.int_value) THEN "requires int_value"
        ELSE IF \/ Val(v_entry.int_value) < v_scale_min
                \/ Val(v_entry.int_value) > v_scale_max
             THEN "rating out of range"
             ELSE OK

\* Variant: an empty text_value is not rejected.
NotesErrorAcceptsEmpty(v_entry) ==
    IF IsNull(v_entry.text_value)
    THEN "requires text_value"
    ELSE IF Len(Val(v_entry.text_value)) > NotesMaxLen
         THEN "notes too long"
         ELSE OK

\* WHEN 'notes': text_value present, not empty and at most 2000 characters.
NotesError(v_entry) ==
    IF IsNull(v_entry.text_value) \/ Len(Val(v_entry.text_value)) = 0
    THEN "requires text_value"
    ELSE IF Len(Val(v_entry.text_value)) > NotesMaxLen
         THEN "notes too long"
         ELSE OK

\* The CASE v_metric.type block: the exception raised for the entry, or OK.
ValidationError(v_metric, v_entry) ==
    LET v_config == v_metric.config
    IN  CASE v_metric.type = "boolean" ->
               IF IsNull(v_entry.bool_value) THEN "requires bool_value" ELSE OK
          [] v_metric.type = "rating" -> RatingError(v_config, v_entry)
          [] v_metric.type = "number" ->
               IF IsNull(v_entry.float_value) THEN "requires float_value"
               ELSE IF /\ NotNull(v_config.min)
                       /\ Val(v_entry.float_value) < Val(v_config.min)
                    THEN "number below minimum"
                    ELSE IF /\ NotNull(v_config.max)
                            /\ Val(v_entry.float_value) > Val(v_config.max)
                         THEN "number above maximum"
                         ELSE OK
          [] v_metric.type = "select" ->
               IF IsNull(v_entry.select_key) THEN "requires select_key"
               ELSE IF NotAnyIsTrue(Val(v_entry.select_key), ValidKeys(v_config))
                    THEN "invalid select_key"
                    ELSE OK
          [] v_metric.type = "tags" ->
               IF IsNull(v_entry.tag_keys) \/ Len(Val(v_entry.tag_keys)) = 0
               THEN "requires at least one tag"
               ELSE IF \E i \in DOMAIN Val(v_entry.tag_keys) :
                          NotAnyIsTrue(Val(v_entry.tag_keys)[i], ValidKeys(v_config))
                    THEN "invalid tag_key"
                    ELSE OK
          [] v_metric.type = "notes" -> NotesError(v_entry)
          [] OTHER -> "unknown metric type"

\* Variant: p_status is not checked.
PreconditionErrorNoStatusCheck(auth_uid, p_user_id, p_status, p_day_id) ==
    IF IsNull(auth_uid)
    THEN "Not authenticated"
    ELSE IF Val(auth_uid) # p_user_id
    THEN "Cannot save data for another user"
    ELSE IF ~MatchesDayIdFormat(p_day_id)
    THEN "Invalid day_id format"
    ELSE OK

\* Variant: the comparison of auth.uid() with p_user_id is missing.
PreconditionErrorNoOwnerCheck(auth_uid, p_user_id, p_status, p_day_id) ==
    IF IsNull(auth_uid)
    THEN "Not authenticated"
    ELSE IF p_status \notin {"draft", "submitted"}
    THEN "Invalid status"
    ELSE IF ~MatchesDayIdFormat(p_day_id)
    THEN "Invalid day_id format"
    ELSE OK

\* The checks before the loop: auth.uid(), p_status, p_day_id.
PreconditionError(auth_uid, p_user_id, p_status, p_day_id) ==
    IF IsNull(auth_uid)
    THEN "Not authenticated"
    ELSE IF Val(auth_uid) # p_user_id
    THEN "Cannot save data for another user"
    ELSE IF p_status \notin {"draft", "submitted"}
    THEN "Invalid status"
    ELSE IF ~MatchesDayIdFormat(p_day_id)
    THEN "Invalid day_id format"
    ELSE OK

----------------------------------------------------------------------------
\* save_day: storage

Empty == <<>>

Db(entries, checkins) == [metric_entry |-> entries, daily_checkin |-> checkins]

\* The six typed columns of the INSERT INTO metric_entry ... VALUES list:
\* every column is taken from the entry, whatever the type of the metric.
EntryRow(v_entry) ==
    [bool_value |-> v_entry.bool_value,
     int_value |-> v_entry.int_value,
     float_value |-> v_entry.float_value,
     text_value |-> v_entry.text_value,
     select_key |-> v_entry.select_key,
     tag_keys |-> v_entry.tag_keys]

\* CONSTRAINT text_value_length CHECK (LENGTH(text_value) <= 2000); a NULL
\* text_value passes.
EntryCheckError(row) ==
    IF NotNull(row.text_value) /\ Len(Val(row.text_value)) > NotesMaxLen
    THEN "violates check constraint text_value_length"
    ELSE OK

\* Variant: the conflict target leaves out metric_id.
EntryKeyPerDay(p_user_id, metric_id, p_day_id) == <<p_user_id, 0, p_day_id>>

\* PRIMARY KEY (user_id, metric_id, day_id), the ON CONFLICT target.
EntryKey(p_user_id, metric_id, p_day_id) == <<p_user_id, metric_id, p_day_id>>

\* Variant: the upsert replaces the rows the day had for other metrics.
UpsertEntryReplacesDay(table, key, row) ==
    [k \in {key} \cup {e \in DOMAIN table : e[1] # key[1] \/ e[3] # key[3]} |->
        IF k = key THEN row ELSE table[k]]

\* Variant: the upsert removes the rows of the metric for other days.
UpsertEntryReplacesMetric(table, key, row) ==
    [k \in {key} \cup {e \in DOMAIN table : e[1] # key[1] \/ e[2] # key[2]} |->
        IF k = key THEN row ELSE table[k]]

\* Variant: DO UPDATE SET int_value = metric_entry.int_value + EXCLUDED.int_value
UpsertEntryAccumulates(table, key, row) ==
    [k \in DOMAIN table \cup {key} |->
        IF k # key THEN table[k]
        ELSE IF key \in DOMAIN table /\ NotNull(table[key].int_value)
                /\ NotNull(row.int_value)
             THEN [row EXCEPT !.int_value =
                       Some(Val(table[key].int_value) + Val(row.int_value))]
             ELSE row]

\* INSERT INTO metric_entry ... ON CONFLICT (user_id, metric_id, day_id)
\* DO UPDATE SET <the six value columns> = EXCLUDED.<column>
UpsertEntry(table, key, row) ==
    [k \in DOMAIN table \cup {key} |-> IF k = key THEN row ELSE table[k]]

\* Variant: DO UPDATE keeps a stored status 'submitted'.
UpsertCheckinKeepsSubmitted(table, key, row) ==
    [k \in DOMAIN table \cup {key} |->
        IF k # key THEN table[k]
        ELSE IF key \in DOMAIN table /\ table[key].status = "submitted"
             THEN [row EXCEPT !.status = "submitted"]
             ELSE row]

\* Variant: an UPDATE of the row of the day, which inserts nothing.
UpsertCheckinUpdatesOnly(table, key, row) ==
    [k \in DOMAIN table |-> IF k = key THEN row ELSE table[k]]

\* INSERT INTO daily_checkin ... ON CONFLICT (user_id, day_id)
\* DO UPDATE SET status = EXCLUDED.status, completion_pct = EXCLUDED.completion_pct
UpsertCheckin(table, key, row) ==
    [k \in DOMAIN table \cup {key} |-> IF k = key THEN row ELSE table[k]]

\* daily_checkin: CHECK (status IN ('draft', 'submitted')) and
\* CHECK (completion_pct >= 0 AND completion_pct <= 100)
CheckinCheckError(row) ==
    IF row.status \notin {"draft", "submitted"}
    THEN "violates check constraint status"
    ELSE IF row.completion_pct < 0 \/ row.completion_pct > 100
         THEN "violates check constraint completion_pct"
         ELSE OK

\* Variant: an entry whose metric is not found is skipped.
ProcessEntrySkipsNotFound(table, registry, p_user_id, p_day_id, v_entry) ==
    LET found == LookupMetric(registry, p_user_id, v_entry.metric_id)
    IN  IF found = {}
        THEN [err |-> OK, err_metric_id |-> None, metric_entry |-> table]
        ELSE LET v_metric == registry[CHOOSE id \in found : TRUE]
                 verr == ValidationError(v_metric, v_entry)
                 row == EntryRow(v_entry)
             IN  IF verr # OK
                 THEN [err |-> verr,
                       err_metric_id |-> IF verr = "unknown metric type" THEN None
                                         ELSE Some(v_entry.metric_id),
                       metric_entry |-> table]
                 ELSE IF EntryCheckError(row) # OK
                      THEN [err |-> EntryCheckError(row), err_metric_id |-> None,
                            metric_entry |-> table]
                      ELSE [err |-> OK, err_metric_id |-> None,
                            metric_entry |->
                                UpsertEntry(table,
                                            EntryKey(p_user_id, v_entry.metric_id, p_day_id),
                                            row)]

\* One iteration of FOR v_entry IN jsonb_array_elements(p_entries): the
\* exception it raises (or OK), the metric id its message names, and the
\* metric_entry table it leaves.
ProcessEntry(table, registry, p_user_id, p_day_id, v_entry) ==
    LET found == LookupMetric(registry, p_user_id, v_entry.metric_id)
    IN  IF found = {}
        THEN [err |-> "metric not found or archived",
              err_metric_id |-> Some(v_entry.metric_id), metric_entry |-> table]
        ELSE LET v_metric == registry[CHOOSE id \in found : TRUE]
                 verr == ValidationError(v_metric, v_entry)
                 row == EntryRow(v_entry)
             IN  IF verr # OK
                 THEN [err |-> verr,
                       err_metric_id |-> IF verr = "unknown metric type" THEN None
                                         ELSE Some(v_entry.metric_id),
                       metric_entry |-> table]
                 ELSE IF EntryCheckError(row) # OK
                      THEN [err |-> EntryCheckError(row), err_metric_id |-> None,
                            metric_entry |-> table]
                      ELSE [err |-> OK, err_metric_id |-> None,
                            metric_entry |->
                                UpsertEntry(table,
                                            EntryKey(p_user_id, v_entry.metric_id, p_day_id),
                                            row)]

\* Variant: the call first deletes the rows stored for the day.
RECURSIVE EntryLoopClearsDay(_, _, _, _, _, _)
EntryLoopClearsDay(table, registry, p_user_id, p_day_id, p_entries, i) ==
    LET kept == IF i = 1
                THEN [k \in {e \in DOMAIN table : e[1] # p_user_id \/ e[3] # p_day_id}
                         |-> table[k]]
                ELSE table
    IN  IF i > Len(p_entries)
        THEN [err |-> OK, err_metric_id |-> None, metric_entry |-> kept,
              v_saved_count |-> i - 1]
        ELSE LET step == ProcessEntry(kept, registry, p_user_id, p_day_id, p_entries[i])
             IN  IF step.err # OK
                 THEN [err |-> step.err, err_metric_id |-> step.err_metric_id,
                       metric_entry |-> step.metric_entry, v_saved_count |-> i - 1]
                 ELSE EntryLoopClearsDay(step.metric_entry, registry, p_user_id,
                                         p_day_id, p_entries, i + 1)

\* Variant: v_saved_count is the number of different metrics upserted.
RECURSIVE EntryLoopCountsMetrics(_, _, _, _, _, _)
EntryLoopCountsMetrics(table, registry, p_user_id, p_day_id, p_entries, i) ==
    LET counted == Cardinality({p_entries[j].metric_id : j \in 1..(i - 1)})
    IN  IF i > Len(p_entries)
        THEN [err |-> OK, err_metric_id |-> None, metric_entry |-> table,
              v_saved_count |-> counted]
        ELSE LET step == ProcessEntry(table, registry, p_user_id, p_day_id, p_entries[i])
             IN  IF step.err # OK
                 THEN [err |-> step.err, err_metric_id |-> step.err_metric_id,
                       metric_entry |-> step.metric_entry, v_saved_count |-> counted]
                 ELSE EntryLoopCountsMetrics(step.metric_entry, registry, p_user_id,
                                             p_day_id, p_entries, i + 1)

\* The loop from entry i on: stops at the first exception.  v_saved_count
\* counts the entries upserted so far.
RECURSIVE EntryLoop(_, _, _, _, _, _)
EntryLoop(table, registry, p_user_id, p_day_id, p_entries, i) ==
    IF i > Len(p_entries)
    THEN [err |-> OK, err_metric_id |-> None, metric_entry |-> table,
          v_saved_count |-> i - 1]
    ELSE LET step == ProcessEntry(table, registry, p_user_id, p_day_id, p_entries[i])
         IN  IF step.err # OK
             THEN [err |-> step.err, err_metric_id |-> step.err_metric_id,
                   metric_entry |-> step.metric_entry, v_saved_count |-> i - 1]
             ELSE EntryLoop(step.metric_entry, registry, p_user_id, p_day_id,
                            p_entries, i + 1)

----------------------------------------------------------------------------
\* save_day: completion percentage

\* SELECT COUNT(*) FROM metrics WHERE user_id = p_user_id
\*   AND is_required = TRUE AND archived_at IS NULL
TotalRequired(registry, p_user_id) ==
    Cardinality({id \in DOMAIN registry :
                    /\ registry[id].user_id = p_user_id
                    /\ registry[id].is_required
                    /\ IsNull(registry[id].archived_at)})

\* Variant: the join does not filter on m.archived_at.
AnsweredRequiredCountsArchived(registry, table, p_user_id, p_day_id) ==
    Cardinality({k[2] : k \in
                    {me \in DOMAIN table :
                        /\ me[1] = p_user_id
                        /\ me[3] = p_day_id
                        /\ me[2] \in DOMAIN registry
                        /\ registry[me[2]].is_required}})

\* SELECT COUNT(DISTINCT me.metric_id) FROM metric_entry me
\*   INNER JOIN metrics m ON m.id = me.metric_id
\*   WHERE me.user_id = p_user_id AND me.day_id = p_day_id
\*     AND m.is_required = TRUE AND m.archived_at IS NULL
AnsweredRequired(registry, table, p_user_id, p_day_id) ==
    Cardinality({k[2] : k \in
                    {me \in DOMAIN table :
                        /\ me[1] = p_user_id
                        /\ me[3] = p_day_id
                        /\ me[2] \in DOMAIN registry
                        /\ registry[me[2]].is_required
                        /\ IsNull(registry[me[2]].archived_at)}})

\* Variant: integer division, (answered * 100) / total, which truncates.
CompletionPctTruncates(v_answered_required, v_total_required) ==
    IF v_total_required > 0
    THEN (100 * v_answered_required) \div v_total_required
    ELSE 100

\* ROUND((answered::NUMERIC / total::NUMERIC) * 100): NUMERIC rounds a tie
\* away from zero; 100 when there is no required metric.
CompletionPct(v_answered_required, v_total_required) ==
    IF v_total_required > 0
    THEN (200 * v_answered_required + v_total_required) \div (2 * v_total_required)
    ELSE 100

----------------------------------------------------------------------------
\* save_day: the whole call

\* Variant: the statements that ran before the exception stay applied.
RaiseExceptionKeepsWrites(err, v_saved_count, before, working) ==
    [ok |-> FALSE, err |-> err, completion_pct |-> 0,
     v_saved_count |-> v_saved_count,
     metric_entry |-> working.metric_entry, daily_checkin |-> working.daily_checkin]

\* RAISE EXCEPTION leaves the function and the statement that called it is
\* rolled back: the tables are the ones the call found, whatever the loop
\* had written.  v_saved_count is the counter at the time of the exception.
RaiseException(err, v_saved_count, before, working) ==
    [ok |-> FALSE, err |-> err, completion_pct |-> 0,
     v_saved_count |-> v_saved_count,
     metric_entry |-> before.metric_entry, daily_checkin |-> before.daily_checkin]

save_day(db, registry, auth_uid, p_user_id, p_day_id, p_status, p_entries) ==
    LET pre == PreconditionError(auth_uid, p_user_id, p_status, p_day_id)
        loop == EntryLoop(db.metric_entry, registry, p_user_id, p_day_id, p_entries, 1)
        v_total_required == TotalRequired(registry, p_user_id)
        v_answered_required ==
            AnsweredRequired(registry, loop.metric_entry, p_user_id, p_day_id)
        v_completion_pct == CompletionPct(v_answered_required, v_total_required)
        checkin == [status |-> p_status, completion_pct |-> v_completion_pct]
        working == Db(loop.metric_entry, db.daily_checkin)
    IN  IF pre # OK
        THEN RaiseException(pre, 0, db, db) @@ [err_metric_id |-> None]
        ELSE IF loop.err # OK
        THEN RaiseException(loop.err, loop.v_saved_count, db, working)
                @@ [err_metric_id |-> loop.err_metric_id]
        ELSE IF CheckinCheckError(checkin) # OK
        THEN RaiseException(CheckinCheckError(checkin), loop.v_saved_count, db, working)
                @@ [err_metric_id |-> None]
        ELSE [ok |-> TRUE, err |-> OK, err_metric_id |-> None,
              completion_pct |-> v_completion_pct,
              v_saved_count |-> loop.v_saved_count,
              metric_entry |-> loop.metric_entry,
              daily_checkin |->
                  UpsertCheckin(db.daily_checkin, <<p_user_id, p_day_id>>, checkin)]

----------------------------------------------------------------------------
\* State and operations

NoRet ==
    [op |-> "none", ok |-> TRUE, err |-> OK, completion_pct |-> 0,
     v_saved_count |-> 0, user_id |-> "", day_id |-> <<>>, status |-> "",
     metric_ids |-> {}]

Init ==
    /\ metrics = Registry0
    /\ metric_entry = Empty
    /\ daily_checkin = Empty
    /\ ret = NoRet
    /\ stale = {}
    /\ tx = Empty
    /\ rd = Empty
    /\ req = Empty
    /\ view = Empty
    /\ now = ParseDay(Day1)

MetricIds(p_entries) == {p_entries[i].metric_id : i \in DOMAIN p_entries}

\* What the caller of save_day gets back.
SaveDayRet(r, p_user_id, p_day_id, p_status, p_entries) ==
    IF r.ok
    THEN [op |-> "save_day", ok |-> TRUE, err |-> OK,
          completion_pct |-> r.completion_pct,
          v_saved_count |-> r.v_saved_count,
          user_id |-> p_user_id, day_id |-> p_day_id, status |-> p_status,
          metric_ids |-> MetricIds(p_entries)]
    ELSE [NoRet EXCEPT !.op = "save_day", !.ok = FALSE, !.err = r.err,
                       !.v_saved_count = r.v_saved_count]

\* supabase.rpc('save_day', ...) run as one transaction with no other
\* session active, for a call drawn from the given input sets.
SaveDayOn(callers, users, days, statuses, batches) ==
    \E auth_uid \in callers, p_user_id \in users, p_day_id \in days,
       p_status \in statuses, p_entries \in batches :
        LET r == save_day(Db(metric_entry, daily_checkin), metrics, auth_uid,
                          p_user_id, p_day_id, p_status, p_entries)
        IN  /\ metric_entry' = r.metric_entry
            /\ daily_checkin' = r.daily_checkin
            /\ ret' = SaveDayRet(r, p_user_id, p_day_id, p_status, p_entries)
            /\ stale' = IF r.ok THEN stale \ {<<p_user_id, p_day_id>>} ELSE stale
            /\ UNCHANGED <<metrics, tx, rd, req, view, now>>

SaveDay == SaveDayOn(Callers, TargetUsers, DayInputs, StatusInputs, Batches)

Next == SaveDay

Spec == Init /\ [][Next]_vars

----------------------------------------------------------------------------
\* Metric management: supabase.from('metrics').update(...).eq('id', metricId)
\* .eq('user_id', userId), under the policy "Users can update own metrics".

UpdateMetrics(auth_uid, userId, metricId, column, value) ==
    [id \in DOMAIN metrics |->
        IF /\ id = metricId
           /\ metrics[id].user_id = userId
           /\ auth_uid = Some(metrics[id].user_id)
        THEN [metrics[id] EXCEPT ![column] = value]
        ELSE metrics[id]]

\* Variant: the update recomputes the completion_pct of the owner's days.
MetricsUpdatedRecomputes(updated) ==
    /\ metrics' = updated
    /\ ret' = [NoRet EXCEPT !.op = "updateMetrics"]
    /\ stale' = stale
    /\ daily_checkin' =
          [k \in DOMAIN daily_checkin |->
              [daily_checkin[k] EXCEPT !.completion_pct =
                  CompletionPct(AnsweredRequired(updated, metric_entry, k[1], k[2]),
                                TotalRequired(updated, k[1]))]]
    /\ UNCHANGED <<metric_entry, tx, rd, req, view, now>>

\* The update as a step: the tables of days are not touched.
MetricsUpdated(updated) ==
    /\ metrics' = updated
    /\ ret' = [NoRet EXCEPT !.op = "updateMetrics"]
    /\ stale' = stale \cup
                  {k \in DOMAIN daily_checkin :
                      \E id \in DOMAIN metrics :
                          updated[id] # metrics[id] /\ metrics[id].user_id = k[1]}
    /\ UNCHANGED <<metric_entry, daily_checkin, tx, rd, req, view, now>>

ArchiveMetricOn(callers, users, ids) ==
    \E auth_uid \in callers, userId \in users, metricId \in ids :
        MetricsUpdated(UpdateMetrics(auth_uid, userId, metricId, "archived_at", Some("now")))

UnarchiveMetricOn(callers, users, ids) ==
    \E auth_uid \in callers, userId \in users, metricId \in ids :
        MetricsUpdated(UpdateMetrics(auth_uid, userId, metricId, "archived_at", None))

UpdateRequiredOn(callers, users, ids) ==
    \E auth_uid \in callers, userId \in users, metricId \in ids, isRequired \in BOOLEAN :
        MetricsUpdated(UpdateMetrics(auth_uid, userId, metricId, "is_required", isRequired))

----------------------------------------------------------------------------
\* Specification with metric management: u1 saves one day and archives,
\* unarchives and toggles metrics in between.

RegArchivable == {1, 3}
RegToggleable == {2}
RegStatusInputs == {"draft", "submitted"}
RegBatches == BatchesOf(RegEntryInputs)

SaveDayReg == SaveDayOn({Some("u1")}, {"u1"}, {Day1}, RegStatusInputs, RegBatches)
ArchiveMetricReg == ArchiveMetricOn({Some("u1")}, {"u1"}, RegArchivable)
UnarchiveMetricReg == UnarchiveMetricOn({Some("u1")}, {"u1"}, RegArchivable)
UpdateRequiredReg == UpdateRequiredOn({Some("u1")}, {"u1"}, RegToggleable)

NextReg == SaveDayReg \/ ArchiveMetricReg \/ UnarchiveMetricReg \/ UpdateRequiredReg

SpecReg == Init /\ [][NextReg]_vars

RegArgs ==
    [auth_uid : {Some("u1")}, p_user_id : {"u1"}, p_day_id : {Day1},
     p_status : RegStatusInputs, p_entries : RegBatches]

----------------------------------------------------------------------------
\* Specification with eight boolean metrics, all required or all optional,
\* the last of which can be archived.

InitWide ==
    /\ metrics \in {RegistryWide(required) : required \in BOOLEAN}
    /\ metric_entry = Empty
    /\ daily_checkin = Empty
    /\ ret = NoRet
    /\ stale = {}
    /\ tx = Empty
    /\ rd = Empty
    /\ req = Empty
    /\ view = Empty
    /\ now = ParseDay(Day1)

WideBatches == BatchesOf(WideEntryInputs)

SaveDayWide == SaveDayOn({Some("u1")}, {"u1"}, {Day1}, {"submitted"}, WideBatches)
ArchiveMetricWide == ArchiveMetricOn({Some("u1")}, {"u1"}, {18})
UnarchiveMetricWide == UnarchiveMetricOn({Some("u1")}, {"u1"}, {18})

NextWide == SaveDayWide \/ ArchiveMetricWide \/ UnarchiveMetricWide

SpecWide == InitWide /\ [][NextWide]_vars

----------------------------------------------------------------------------
\* Specification of the metric lookup: u1 saves entries for an own metric
\* that is archived and unarchived in between, for an own metric that stays
\* active, for a metric of u2 and for the metric id 9 that does not exist.

LookupEntryInputs ==
    { IntEntry(1, 8), BoolEntry(2, TRUE), BoolEntry(4, FALSE),
      BoolEntry(9, TRUE) }

LookupBatches == BatchesOf(LookupEntryInputs)

SaveDayLookup ==
    SaveDayOn({Some("u1")}, {"u1"}, {Day1}, RegStatusInputs, LookupBatches)
ArchiveMetricLookup == ArchiveMetricOn({Some("u1")}, {"u1"}, {1})
UnarchiveMetricLookup == UnarchiveMetricOn({Some("u1")}, {"u1"}, {1})

NextLookup == SaveDayLookup \/ ArchiveMetricLookup \/ UnarchiveMetricLookup

SpecLookup == Init /\ [][NextLookup]_vars

LookupArgs ==
    [auth_uid : {Some("u1")}, p_user_id : {"u1"}, p_day_id : {Day1},
     p_status : RegStatusInputs, p_entries : LookupBatches]

----------------------------------------------------------------------------
\* Specification of the day ids: u1 saves three days of the right shape, two
\* of them no calendar dates, and is offered four malformed day ids.

DayIdInputs == {Day1, Day2, Day3, DayBad, DayLetter, DaySlash, DayLong}

DaysEntryInputs == {IntEntry(1, 8), BoolEntry(2, TRUE)}

DaysBatches == BatchesOf(DaysEntryInputs)

SaveDayDays == SaveDayOn({Some("u1")}, {"u1"}, DayIdInputs, {"draft"}, DaysBatches)

NextDays == SaveDayDays

SpecDays == Init /\ [][NextDays]_vars

DaysArgs ==
    [auth_uid : {Some("u1")}, p_user_id : {"u1"}, p_day_id : DayIdInputs,
     p_status : {"draft"}, p_entries : DaysBatches]

----------------------------------------------------------------------------
\* Specification of the metric configurations: u1 inserts one more metric,
\* a select, tags or rating metric whose config has its full shape, an empty
\* options list or nothing (the column default '{}'), and saves entries
\* for it.  installMetric copies the config of the catalog row as it is, the
\* policy "Users can insert own metrics" checks the owner only, and the
\* table has no constraint on config.

\* The catalog row offered for installation: catalog_metrics.config has no
\* constraint either.
CatalogInputs ==
    { [name |-> "Custom", type |-> c[1], is_required |-> FALSE, config |-> c[2]] :
        c \in { <<"select", [NoConfig EXCEPT !.options = Some(<<"happy", "sad">>)]>>,
                <<"select", [NoConfig EXCEPT !.options = Some(<<>>)]>>,
                <<"select", NoConfig>>,
                <<"tags", [NoConfig EXCEPT !.options = Some(<<"happy", "sad">>)]>>,
                <<"tags", [NoConfig EXCEPT !.options = Some(<<>>)]>>,
                <<"tags", NoConfig>>,
                <<"rating", [NoConfig EXCEPT !.scaleMin = Some(1), !.scaleMax = Some(5)]>>,
                <<"rating", NoConfig>> } }

\* The names of the user's active metrics, which the catalog does not offer.
InstalledNames(userId) ==
    {metrics[id].name : id \in {m \in DOMAIN metrics :
                                    /\ metrics[m].user_id = userId
                                    /\ IsNull(metrics[m].archived_at)}}

\* id BIGSERIAL: the id after the last one given.
NextMetricId(registry) ==
    (CHOOSE id \in DOMAIN registry : \A other \in DOMAIN registry : other <= id) + 1

\* installMetric: supabase.from('metrics').insert({user_id, name, type,
\* is_required, config: catalogMetric.config}) for a metric the catalog offers.
InstallMetric ==
    \E catalogMetric \in CatalogInputs :
        /\ catalogMetric.name \notin InstalledNames("u1")
        /\ metrics' = metrics @@
                         (NextMetricId(metrics) :>
                             Metric("u1", catalogMetric.name, catalogMetric.type,
                                    catalogMetric.is_required, catalogMetric.config))
        /\ ret' = [NoRet EXCEPT !.op = "installMetric"]
        /\ stale' = stale \cup {k \in DOMAIN daily_checkin : k[1] = "u1"}
        /\ UNCHANGED <<metric_entry, daily_checkin, tx, rd, req, view, now>>

ConfigEntryInputs ==
    { SelectEntry(5, "happy"), SelectEntry(5, "angry"),
      TagsEntry(5, <<"happy">>), TagsEntry(5, <<"happy", "angry">>),
      TagsEntry(5, <<>>), IntEntry(5, 5), IntEntry(5, 7) }

ConfigBatches == BatchesOf(ConfigEntryInputs)

SaveDayConfig == SaveDayOn({Some("u1")}, {"u1"}, {Day1}, {"draft"}, ConfigBatches)

NextConfig == InstallMetric \/ SaveDayConfig

SpecConfig == Init /\ [][NextConfig]_vars

ConfigArgs ==
    [auth_uid : {Some("u1")}, p_user_id : {"u1"}, p_day_id : {Day1},
     p_status : {"draft"}, p_entries : ConfigBatches]

----------------------------------------------------------------------------
\* Specification of the rating scale: next to the rating metric on the scale
\* 1-10, u1 has a rating metric on the scale 3-5, and saves values at and
\* next to the bounds of both scales and entries without int_value.

RegistryRating ==
    Registry0 @@
    (7 :> Metric("u1", "Focus", "rating", FALSE,
                 [NoConfig EXCEPT !.scaleMin = Some(3), !.scaleMax = Some(5)]))

InitRating ==
    /\ metrics = RegistryRating
    /\ metric_entry = Empty
    /\ daily_checkin = Empty
    /\ ret = NoRet
    /\ stale = {}
    /\ tx = Empty
    /\ rd = Empty
    /\ req = Empty
    /\ view = Empty
    /\ now = ParseDay(Day1)

RatingEntryInputs ==
    { IntEntry(1, 0), IntEntry(1, 1), IntEntry(1, 10), IntEntry(1, 11),
      Entry(1, NoValue),
      IntEntry(7, 2), IntEntry(7, 3), IntEntry(7, 5), IntEntry(7, 6) }

RatingBatches == BatchesOf(RatingEntryInputs)

SaveDayRating ==
    SaveDayOn({Some("u1")}, {"u1"}, {Day1}, RegStatusInputs, RatingBatches)

NextRating == SaveDayRating

SpecRating == InitRating /\ [][NextRating]_vars

RatingArgs ==
    [auth_uid : {Some("u1")}, p_user_id : {"u1"}, p_day_id : {Day1},
     p_status : RegStatusInputs, p_entries : RatingBatches]

----------------------------------------------------------------------------
\* Specification of the notes: u1 has a notes metric and saves an empty
\* text, 'ok', texts of 2000 and of 2001 characters, an entry without
\* text_value, a rating, and a boolean entry that carries a text of 2001
\* characters.

RegistryNotes == Registry0 @@ (6 :> Metric("u1", "Journal", "notes", FALSE, NoConfig))

InitNotes ==
    /\ metrics = RegistryNotes
    /\ metric_entry = Empty
    /\ daily_checkin = Empty
    /\ ret = NoRet
    /\ stale = {}
    /\ tx = Empty
    /\ rd = Empty
    /\ req = Empty
    /\ view = Empty
    /\ now = ParseDay(Day1)

TextOfLength(n) == [i \in 1..n |-> "x"]

NotesEntryInputs ==
    { TextEntry(6, <<>>), TextEntry(6, <<"o", "k">>),
      TextEntry(6, TextOfLength(NotesMaxLen)), TextEntry(6, TextOfLength(NotesMaxLen + 1)),
      Entry(6, NoValue), IntEntry(1, 8),
      Entry(2, [NoValue EXCEPT !.bool_value = Some(TRUE),
                               !.text_value = Some(TextOfLength(NotesMaxLen + 1))]) }

NotesBatches == BatchesOf(NotesEntryInputs)

SaveDayNotes ==
    SaveDayOn({Some("u1")}, {"u1"}, {Day1}, RegStatusInputs, NotesBatches)

NextNotes == SaveDayNotes

SpecNotes == InitNotes /\ [][NextNotes]_vars

NotesArgs ==
    [auth_uid : {Some("u1")}, p_user_id : {"u1"}, p_day_id : {Day1},
     p_status : RegStatusInputs, p_entries : NotesBatches]

----------------------------------------------------------------------------
\* Specification of the owners: u1 and u2 each call save_day for themselves
\* and for the other user, with entries for their own and for the other
\* user's metrics.

OwnerEntryInputs == {IntEntry(1, 8), BoolEntry(2, TRUE), BoolEntry(4, FALSE)}

OwnerBatches == BatchesOf(OwnerEntryInputs)

SaveDayOwner ==
    SaveDayOn({Some(u) : u \in Users}, Users, {Day1}, RegStatusInputs, OwnerBatches)

NextOwner == SaveDayOwner

SpecOwner == Init /\ [][NextOwner]_vars

OwnerArgs ==
    [auth_uid : {Some(u) : u \in Users}, p_user_id : Users, p_day_id : {Day1},
     p_status : RegStatusInputs, p_entries : OwnerBatches]

----------------------------------------------------------------------------
\* Route protection (middleware.ts).  A pathname is the tuple of its
\* segments and the extension of the last one: "/" is Path(<<>>, ""),
\* "/logo.png" is Path(<<"logo">>, "png").

Path(segs, ext) == [segs |-> segs, ext |-> ext]

LoginPath == Path(<<"login">>, "")
AuthCallbackPath == Path(<<"auth", "callback">>, "")
RootPath == Path(<<>>, "")

PathInputs ==
    { RootPath, LoginPath, AuthCallbackPath,
      Path(<<"capture">>, ""), Path(<<"catalog">>, ""), Path(<<"metrics">>, ""),
      Path(<<"settings">>, ""), Path(<<"profile">>, ""),
      Path(<<"login", "help">>, ""), Path(<<"auth">>, ""),
      Path(<<"auth", "callback", "done">>, ""),
      Path(<<"_next", "static", "chunk">>, "js"), Path(<<"_next", "image">>, ""),
      Path(<<"_next", "data">>, ""), Path(<<"favicon">>, "ico"),
      Path(<<"manifest">>, "json"), Path(<<"logo">>, "png"),
      Path(<<"report">>, "pdf") }

\* The query of a request: the day parameter and the next parameter.
NoSearch == [day |-> None, next |-> None]

SearchInputs == {NoSearch, [NoSearch EXCEPT !.day = Some(Day1)]}

\* config.matcher: every path except _next/static, _next/image, favicon.ico,
\* manifest.json and the paths that end in an image extension.
matcher(pathname) ==
    ~ \/ /\ Len(pathname.segs) >= 2
          /\ pathname.segs[1] = "_next"
          /\ pathname.segs[2] \in {"static", "image"}
       \/ /\ Len(pathname.segs) >= 1
          /\ pathname.segs[1] = "favicon"
          /\ Len(pathname.segs) > 1 \/ pathname.ext = "ico"
       \/ /\ Len(pathname.segs) >= 1
          /\ pathname.segs[1] = "manifest"
          /\ Len(pathname.segs) > 1 \/ pathname.ext = "json"
       \/ pathname.ext \in {"svg", "png", "jpg", "jpeg", "gif", "webp"}

Proceed(user, pathname, search) ==
    [kind |-> "next", user |-> user, pathname |-> pathname, search |-> search,
     location |-> pathname, location_search |-> search]

Redirect(user, pathname, search, location, location_search) ==
    [kind |-> "redirect", user |-> user, pathname |-> pathname, search |-> search,
     location |-> location, location_search |-> location_search]

\* Variant: the unauthenticated redirect has no exception for /login.
middlewareProtectsLogin(user, pathname, search) ==
    LET isAuthPage == pathname = LoginPath
        isAuthCallback == pathname = AuthCallbackPath
    IN  IF isAuthCallback
        THEN Proceed(user, pathname, search)
        ELSE IF isAuthPage /\ NotNull(user)
        THEN Redirect(user, pathname, search, RootPath, search)
        ELSE IF IsNull(user)
        THEN Redirect(user, pathname, search, LoginPath,
                      [search EXCEPT !.next = Some(pathname)])
        ELSE Proceed(user, pathname, search)

\* middleware(request): the response for a request the matcher selects.
middleware(user, pathname, search) ==
    LET isAuthPage == pathname = LoginPath
        isAuthCallback == pathname = AuthCallbackPath
    IN  IF isAuthCallback
        THEN Proceed(user, pathname, search)
        ELSE IF isAuthPage /\ NotNull(user)
        THEN Redirect(user, pathname, search, RootPath, search)
        ELSE IF ~isAuthPage /\ IsNull(user)
        THEN Redirect(user, pathname, search, LoginPath,
                      [search EXCEPT !.next = Some(pathname)])
        ELSE Proceed(user, pathname, search)

\* The response to a request: a path the matcher leaves out is served
\* without the middleware.
Respond(user, pathname, search, hops) ==
    [handled |-> matcher(pathname), hops |-> hops] @@
    (IF matcher(pathname)
     THEN middleware(user, pathname, search)
     ELSE Proceed(user, pathname, search))

\* The browser requests a path.
Navigate ==
    /\ \E user \in Callers, pathname \in PathInputs, search \in SearchInputs :
          req' = Respond(user, pathname, search, 0)
    /\ UNCHANGED <<metrics, metric_entry, daily_checkin, ret, stale, tx, rd, view, now>>

\* The browser follows the redirect it was answered with.
FollowRedirect ==
    /\ req # Empty
    /\ req.kind = "redirect"
    /\ req.hops < MaxHops
    /\ req' = Respond(req.user, req.location, req.location_search, req.hops + 1)
    /\ UNCHANGED <<metrics, metric_entry, daily_checkin, ret, stale, tx, rd, view, now>>

NextRoute == Navigate \/ FollowRedirect

SpecRoute == Init /\ [][NextRoute]_vars

----------------------------------------------------------------------------
\* Capture view (CaptureInterface.tsx, MetricInput.tsx).  The view holds
\* the user, the day parameter of the URL, the day shown, the metrics and
\* the entries it loaded, the percentage it displays and whether its last
\* render showed the form (canEditDay at that time).

\* diffDays >= 0 && diffDays < 7, with today the current day in the user's
\* timezone.
canEditDay(dayId, today) ==
    LET diffDays == today - ParseDay(dayId)
    IN  diffDays >= 0 /\ diffDays < EditWindowDays

hasValue(entry) ==
    \/ NotNull(entry.bool_value)
    \/ NotNull(entry.int_value)
    \/ NotNull(entry.float_value)
    \/ NotNull(entry.text_value) /\ Len(Val(entry.text_value)) > 0
    \/ NotNull(entry.select_key)
    \/ NotNull(entry.tag_keys) /\ Len(Val(entry.tag_keys)) > 0

\* Math.round(num / den) for num >= 0 and den > 0.
MathRound(num, den) == (2 * num + den) \div (2 * den)

calculateCompletion(loaded, entries) ==
    LET requiredMetrics == {id \in DOMAIN loaded : loaded[id].is_required}
        answeredRequired ==
            {id \in requiredMetrics : id \in DOMAIN entries /\ hasValue(entries[id])}
    IN  IF Cardinality(requiredMetrics) > 0
        THEN MathRound(100 * Cardinality(answeredRequired), Cardinality(requiredMetrics))
        ELSE 100

\* from('metrics').select('*').eq('user_id', userId).is('archived_at', null)
ActiveMetricsOf(userId) ==
    [id \in {m \in DOMAIN metrics :
                /\ metrics[m].user_id = userId
                /\ IsNull(metrics[m].archived_at)} |-> metrics[id]]

\* from('metric_entry').select('*').eq('user_id', userId).eq('day_id', dayId)
\* as the map from metric id to the six value fields.
EntriesOfDay(userId, dayId) ==
    [id \in {k[2] : k \in {e \in DOMAIN metric_entry :
                               e[1] = userId /\ e[3] = dayId}} |->
        metric_entry[<<userId, id, dayId>>]]

\* Variant: without a day parameter the view always shows today.
initializeDataTodayFirst(userId, dayParam, today) ==
    LET dayId == IF NotNull(dayParam) THEN Val(dayParam) ELSE FormatDay(today)
        metricsData == ActiveMetricsOf(userId)
        entriesMap == EntriesOfDay(userId, dayId)
    IN  [userId |-> userId, dayParam |-> dayParam, currentDayId |-> dayId,
         metrics |-> metricsData, entries |-> entriesMap,
         completionPct |-> calculateCompletion(metricsData, entriesMap),
         editable |-> canEditDay(dayId, today)]

\* initializeData: the day parameter if there is one, otherwise yesterday
\* unless yesterday's check-in is submitted; then the active metrics and the
\* entries of that day.
initializeData(userId, dayParam, today) ==
    LET yesterday == FormatDay(today - 1)
        dayId ==
            IF NotNull(dayParam)
            THEN Val(dayParam)
            ELSE IF \/ <<userId, yesterday>> \notin DOMAIN daily_checkin
                    \/ daily_checkin[<<userId, yesterday>>].status = "draft"
            THEN yesterday
            ELSE FormatDay(today)
        metricsData == ActiveMetricsOf(userId)
        entriesMap == EntriesOfDay(userId, dayId)
    IN  [userId |-> userId, dayParam |-> dayParam, currentDayId |-> dayId,
         metrics |-> metricsData, entries |-> entriesMap,
         completionPct |-> calculateCompletion(metricsData, entriesMap),
         editable |-> canEditDay(dayId, today)]

\* CheckinService.getDefaultDayId: the same choice on the server.
getDefaultDayId(checkins, userId, today) ==
    LET yesterdayId == FormatDay(today - 1)
    IN  IF \/ <<userId, yesterdayId>> \notin DOMAIN checkins
           \/ checkins[<<userId, yesterdayId>>].status = "draft"
        THEN yesterdayId
        ELSE FormatDay(today)

\* TagsInput.toggleTag: the value the input reports for a click on key.
toggleTag(value, key) ==
    LET selected == IF NotNull(value.tag_keys) THEN Val(value.tag_keys) ELSE <<>>
        newTags ==
            IF \E i \in DOMAIN selected : selected[i] = key
            THEN SelectSeq(selected, LAMBDA k : k # key)
            ELSE Append(selected, key)
    IN  [NoValue EXCEPT !.tag_keys = IF Len(newTags) > 0 THEN Some(newTags) ELSE None]

\* The value a click reports: a rating button, the boolean switch, a tag.
ClickValue(metric, value, rating, key) ==
    IF metric.type = "rating"
    THEN [NoValue EXCEPT !.int_value = Some(rating)]
    ELSE IF metric.type = "boolean"
    THEN [NoValue EXCEPT !.bool_value =
             Some(~(IF NotNull(value.bool_value) THEN Val(value.bool_value) ELSE FALSE))]
    ELSE toggleTag(value, key)

\* The view opens: /capture or /capture?day=...
OpenCaptureOn(users, dayParams) ==
    \E userId \in users, dayParam \in dayParams :
        /\ view' = initializeData(userId, dayParam, now)
        /\ ret' = [NoRet EXCEPT !.op = "initializeData"]
        /\ UNCHANGED <<metrics, metric_entry, daily_checkin, stale, tx, rd, req, now>>

\* handleEntryChange(metricId, value), for a click on an input of the form.
EntryChangedOn(ids, ratings, keys) ==
    /\ view # Empty
    /\ view.editable
    /\ \E metricId \in ids \cap DOMAIN view.metrics, rating \in ratings, key \in keys :
          LET current == IF metricId \in DOMAIN view.entries
                         THEN view.entries[metricId] ELSE NoValue
              value == ClickValue(view.metrics[metricId], current, rating, key)
              newEntries == (metricId :> value) @@ view.entries
          IN  view' = [view EXCEPT
                          !.entries = newEntries,
                          !.completionPct = calculateCompletion(view.metrics, newEntries),
                          !.editable = canEditDay(view.currentDayId, now)]
    /\ ret' = [NoRet EXCEPT !.op = "handleEntryChange"]
    /\ UNCHANGED <<metrics, metric_entry, daily_checkin, stale, tx, rd, req, now>>

\* Object.entries lists integer keys in ascending order.
RECURSIVE IdsAscending(_)
IdsAscending(ids) ==
    IF ids = {}
    THEN <<>>
    ELSE LET first == CHOOSE x \in ids : \A y \in ids : x <= y
         IN  <<first>> \o IdsAscending(ids \ {first})

\* Object.entries(entries).filter(hasValue).map(metric_id, ...value)
entriesToSave(entries) ==
    LET ids == IdsAscending({id \in DOMAIN entries : hasValue(entries[id])})
    IN  [i \in DOMAIN ids |-> Entry(ids[i], entries[ids[i]])]

\* handleSave(status): save_day for the day and the entries of the view; a
\* submitted day leads to the dashboard, a draft leaves the view open.
HandleSaveOn(statuses) ==
    /\ view # Empty
    /\ view.editable
    /\ \E status \in statuses :
          LET p_entries == entriesToSave(view.entries)
              r == save_day(Db(metric_entry, daily_checkin), metrics, Some(view.userId),
                            view.userId, view.currentDayId, status, p_entries)
              left == r.ok /\ status = "submitted"
          IN  /\ metric_entry' = r.metric_entry
              /\ daily_checkin' = r.daily_checkin
              /\ ret' = [SaveDayRet(r, view.userId, view.currentDayId, status, p_entries)
                            EXCEPT !.op = "handleSave"]
              /\ stale' = IF r.ok THEN stale \ {<<view.userId, view.currentDayId>>}
                          ELSE stale
              /\ view' = IF left
                         THEN Empty
                         ELSE [view EXCEPT !.editable = canEditDay(view.currentDayId, now)]
              /\ req' = IF left
                        THEN Respond(Some(view.userId), RootPath, NoSearch, 0)
                        ELSE req
    /\ UNCHANGED <<metrics, tx, rd, now>>

\* Midnight in the user's timezone.
AdvanceClock ==
    /\ now < MaxNow
    /\ now' = now + 1
    /\ UNCHANGED <<metrics, metric_entry, daily_checkin, ret, stale, tx, rd, req, view>>

\* Specification of the capture view: u1 opens the view without a day, for
\* today and for a day outside the edit window, clicks the rating 8 and the
\* tag happy, and saves drafts and submissions.
CaptureDayParams == {None, Some(Day1), Some(FormatDay(8))}

OpenCapture == OpenCaptureOn({"u1"}, CaptureDayParams)
EntryChanged == EntryChangedOn({1, 3}, {8}, {"happy"})
HandleSave == HandleSaveOn({"draft", "submitted"})

NextCapture == OpenCapture \/ EntryChanged \/ HandleSave

SpecCapture == Init /\ [][NextCapture]_vars

\* Specification of the edit window: u1 opens the view for a day six days
\* back and for tomorrow, clicks and saves, calls save_day for a day seven
\* days back and for tomorrow, and the day changes.
WindowDayParams == {Some(FormatDay(9)), Some(FormatDay(16))}

WindowBatches == BatchesOf({IntEntry(1, 8)})

OpenCaptureWindow == OpenCaptureOn({"u1"}, WindowDayParams)
EntryChangedWindow == EntryChangedOn({1}, {8}, {"happy"})
HandleSaveWindow == HandleSaveOn({"draft"})
SaveDayWindow ==
    SaveDayOn({Some("u1")}, {"u1"}, {FormatDay(8), FormatDay(16)}, {"draft"},
              WindowBatches)

NextWindow ==
    \/ OpenCaptureWindow
    \/ EntryChangedWindow
    \/ HandleSaveWindow
    \/ SaveDayWindow
    \/ AdvanceClock

SpecWindow == Init /\ [][NextWindow]_vars

----------------------------------------------------------------------------
\* Completion streak (CheckinService.getCompletionStreak).  The server and
\* the user are taken to be in the same timezone, so that the day before a
\* day id is the previous calendar day.

RECURSIVE DaysDescending(_)
DaysDescending(days) ==
    IF days = {}
    THEN <<>>
    ELSE LET last == CHOOSE x \in days : \A y \in days : ParseDay(y) <= ParseDay(x)
         IN  <<last>> \o DaysDescending(days \ {last})

\* select('day_id, status').eq('user_id', userId).lte('day_id', todayId)
\*   .order('day_id', { ascending: false }).limit(365)
RecentCheckins(checkins, userId, todayId) ==
    LET days == DaysDescending({k[2] : k \in
                    {c \in DOMAIN checkins :
                        c[1] = userId /\ ParseDay(c[2]) <= ParseDay(todayId)}})
        rows == [i \in DOMAIN days |->
                    [day_id |-> days[i], status |-> checkins[<<userId, days[i]>>].status]]
    IN  IF Len(rows) > StreakLimit THEN SubSeq(rows, 1, StreakLimit) ELSE rows

\* for (const checkin of checkins) { ... }
RECURSIVE StreakLoop(_, _, _, _, _)
StreakLoop(checkins, i, streak, expectedDayId, yesterdayId) ==
    IF i > Len(checkins)
    THEN streak
    ELSE LET checkin == checkins[i]
         IN  IF checkin.day_id = expectedDayId /\ checkin.status = "submitted"
             THEN StreakLoop(checkins, i + 1, streak + 1,
                             FormatDay(ParseDay(expectedDayId) - 1), yesterdayId)
             ELSE IF /\ streak = 0
                     /\ checkin.day_id = yesterdayId
                     /\ checkin.status = "submitted"
             THEN StreakLoop(checkins, i + 1, streak + 1,
                             FormatDay(ParseDay(checkin.day_id) - 1), yesterdayId)
             ELSE streak

getCompletionStreak(checkins, userId, today) ==
    LET todayId == FormatDay(today)
        recent == RecentCheckins(checkins, userId, todayId)
    IN  IF Len(recent) = 0
        THEN 0
        ELSE StreakLoop(recent, 1, 0, todayId, FormatDay(today - 1))

\* The dashboard reads the streak.
GetCompletionStreak ==
    /\ rd' = [op |-> "getCompletionStreak", today |-> now,
              streak |-> getCompletionStreak(daily_checkin, "u1", now)]
    /\ UNCHANGED <<metrics, metric_entry, daily_checkin, ret, stale, tx, req, view, now>>

\* Specification of the streak: u1 saves drafts and submissions for today
\* and the two days before, the dashboard reads the streak, the day changes.
StreakDays == {FormatDay(13), FormatDay(14), Day1}

StreakBatches == BatchesOf({IntEntry(1, 8)})

SaveDayStreak ==
    SaveDayOn({Some("u1")}, {"u1"}, StreakDays, {"draft", "submitted"}, StreakBatches)

NextStreak == SaveDayStreak \/ GetCompletionStreak \/ AdvanceClock

SpecStreak == Init /\ [][NextStreak]_vars

----------------------------------------------------------------------------
\* Catalog (CatalogService.installMetric) with archiveMetric and
\* unarchiveMetric of the metrics manager.

\* catalog_metrics: a rating metric named like a metric u1 has, and a
\* boolean metric u1 does not have.
Catalog0 ==
    (1 :> [name |-> "Mood", type |-> "rating", is_required |-> TRUE,
           config |-> [NoConfig EXCEPT !.scaleMin = Some(1), !.scaleMax = Some(10)]]) @@
    (2 :> [name |-> "Sleep", type |-> "boolean", is_required |-> FALSE,
           config |-> NoConfig])

CatalogIdInputs == {1, 2, 3}

\* from('metrics').select('id').eq('user_id', userId).eq('name', catalogName)
\*   .is('archived_at', null).maybeSingle(): the row if exactly one matches,
\* no data if none or several match.
ExistingMetric(registry, userId, catalogName) ==
    LET matching == {id \in DOMAIN registry :
                        /\ registry[id].user_id = userId
                        /\ registry[id].name = catalogName
                        /\ IsNull(registry[id].archived_at)}
    IN  IF Cardinality(matching) = 1 THEN Some(CHOOSE id \in matching : TRUE) ELSE None

\* CatalogService.installMetric(userId, catalogMetricId): the error thrown
\* and the metrics table after the call.
installMetric(registry, userId, catalogMetricId) ==
    IF catalogMetricId \notin DOMAIN Catalog0
    THEN [err |-> "Catalog metric not found", metrics |-> registry]
    ELSE LET catalogMetric == Catalog0[catalogMetricId]
         IN  IF NotNull(ExistingMetric(registry, userId, catalogMetric.name))
             THEN [err |-> "You already have this metric installed", metrics |-> registry]
             ELSE [err |-> OK,
                   metrics |-> registry @@
                       (NextMetricId(registry) :>
                           Metric(userId, catalogMetric.name, catalogMetric.type,
                                  catalogMetric.is_required, catalogMetric.config))]

CatalogInstallMetric ==
    /\ NextMetricId(metrics) <= MaxMetricId
    /\ \E catalogMetricId \in CatalogIdInputs :
          LET r == installMetric(metrics, "u1", catalogMetricId)
          IN  /\ metrics' = r.metrics
              /\ ret' = [NoRet EXCEPT !.op = "installMetric", !.ok = (r.err = OK),
                                       !.err = r.err]
              /\ stale' = IF r.err = OK
                          THEN stale \cup {k \in DOMAIN daily_checkin : k[1] = "u1"}
                          ELSE stale
    /\ UNCHANGED <<metric_entry, daily_checkin, tx, rd, req, view, now>>

ArchiveMetricCatalog == ArchiveMetricOn({Some("u1")}, {"u1"}, 1..MaxMetricId)
UnarchiveMetricCatalog == UnarchiveMetricOn({Some("u1")}, {"u1"}, 1..MaxMetricId)

NextCatalog == CatalogInstallMetric \/ ArchiveMetricCatalog \/ UnarchiveMetricCatalog

SpecCatalog == Init /\ [][NextCatalog]_vars

----------------------------------------------------------------------------
\* Concurrent sessions.  save_day takes no lock and sets no isolation level,
\* so each call runs as one READ COMMITTED transaction: every statement reads
\* the rows committed when it starts plus the rows its own transaction wrote,
\* an upsert waits while another open transaction holds an uncommitted write
\* of the same key, and the writes of a transaction become visible together
\* when it commits.

Sessions == {"s1", "s2"}

\* The status each session submits.
ConcStatus == [s1 |-> "draft", s2 |-> "submitted"]

\* Batches offered to the sessions: each required metric alone, both in
\* either order, and a valid entry followed by a rating out of range.
ConcBatches ==
    { <<IntEntry(1, 8)>>,
      <<TagsEntry(3, <<"happy">>)>>,
      <<IntEntry(1, 8), TagsEntry(3, <<"happy">>)>>,
      <<TagsEntry(3, <<"happy">>), IntEntry(1, 8)>>,
      <<TagsEntry(3, <<"happy">>), IntEntry(1, 11)>> }

IdleReader == [pc |-> "idle", got |-> {}, checkin |-> None, entries |-> Empty,
               views |-> {}]

InitConc ==
    /\ metrics = Registry0
    /\ metric_entry = Empty
    /\ daily_checkin = Empty
    /\ ret = NoRet
    /\ stale = {}
    /\ tx = Empty
    /\ rd = IdleReader
    /\ req = Empty
    /\ view = Empty
    /\ now = ParseDay(Day1)

Open(s) == s \in DOMAIN tx /\ tx[s].pc \notin {"committed", "aborted"}

\* The metric_entry rows a statement of session s reads.
Visible(s) ==
    [k \in DOMAIN metric_entry \cup DOMAIN tx[s].w_entry |->
        IF k \in DOMAIN tx[s].w_entry THEN tx[s].w_entry[k] ELSE metric_entry[k]]

\* Another open transaction holds an uncommitted write of the row.
EntryLocked(s, key) ==
    \E t \in DOMAIN tx \ {s} : Open(t) /\ key \in DOMAIN tx[t].w_entry

CheckinLocked(s, key) ==
    \E t \in DOMAIN tx \ {s} :
        /\ Open(t)
        /\ NotNull(tx[t].w_checkin)
        /\ <<tx[t].p_user_id, tx[t].p_day_id>> = key

\* The exception ends the transaction: its writes are dropped.
Aborted(t, err) ==
    [t EXCEPT !.pc = "aborted", !.err = err, !.w_entry = Empty, !.w_checkin = None]

\* The day as one read of both tables sees it.
DayView(entries, checkins, userId, dayId) ==
    << IF <<userId, dayId>> \in DOMAIN checkins
       THEN Some(checkins[<<userId, dayId>>]) ELSE None,
       [k \in {e \in DOMAIN entries : e[1] = userId /\ e[3] = dayId} |-> entries[k]] >>

\* BEGIN and the checks before the loop.
TxBegin(s) ==
    /\ s \notin DOMAIN tx
    /\ \E p_entries \in ConcBatches :
          LET pre == PreconditionError(Some("u1"), "u1", ConcStatus[s], Day1)
              t == [pc |-> "loop", err |-> OK, p_user_id |-> "u1", p_day_id |-> Day1,
                    p_status |-> ConcStatus[s], p_entries |-> p_entries, i |-> 1,
                    w_entry |-> Empty, w_checkin |-> None,
                    v_saved_count |-> 0, v_total_required |-> 0,
                    v_answered_required |-> 0, v_completion_pct |-> 0]
          IN  tx' = (s :> (IF pre # OK THEN Aborted(t, pre) ELSE t)) @@ tx
    /\ UNCHANGED <<metrics, metric_entry, daily_checkin, ret, stale, rd, req, view, now>>

\* One iteration of the loop: lookup, validation and the metric_entry upsert.
TxEntry(s) ==
    /\ Open(s)
    /\ tx[s].pc = "loop"
    /\ tx[s].i <= Len(tx[s].p_entries)
    /\ LET t == tx[s]
           v_entry == t.p_entries[t.i]
           key == EntryKey(t.p_user_id, v_entry.metric_id, t.p_day_id)
           step == ProcessEntry(Visible(s), metrics, t.p_user_id, t.p_day_id, v_entry)
       IN  IF step.err # OK
           THEN tx' = [tx EXCEPT ![s] = Aborted(t, step.err)]
           ELSE /\ ~EntryLocked(s, key)
                /\ tx' = [tx EXCEPT ![s] =
                            [t EXCEPT !.i = t.i + 1,
                                      !.v_saved_count = t.v_saved_count + 1,
                                      !.w_entry =
                                          [k \in DOMAIN t.w_entry \cup {key} |->
                                              step.metric_entry[k]]]]
    /\ UNCHANGED <<metrics, metric_entry, daily_checkin, ret, stale, rd, req, view, now>>

\* SELECT COUNT(*) INTO v_total_required
TxCountTotal(s) ==
    /\ Open(s)
    /\ tx[s].pc = "loop"
    /\ tx[s].i > Len(tx[s].p_entries)
    /\ tx' = [tx EXCEPT ![s].pc = "count_answered",
                        ![s].v_total_required = TotalRequired(metrics, tx[s].p_user_id)]
    /\ UNCHANGED <<metrics, metric_entry, daily_checkin, ret, stale, rd, req, view, now>>

\* SELECT COUNT(DISTINCT me.metric_id) INTO v_answered_required, and the
\* percentage computed from the two counts.
TxCountAnswered(s) ==
    /\ Open(s)
    /\ tx[s].pc = "count_answered"
    /\ LET t == tx[s]
           answered == AnsweredRequired(metrics, Visible(s), t.p_user_id, t.p_day_id)
       IN  tx' = [tx EXCEPT ![s] =
                    [t EXCEPT !.pc = "checkin",
                              !.v_answered_required = answered,
                              !.v_completion_pct =
                                  CompletionPct(answered, t.v_total_required)]]
    /\ UNCHANGED <<metrics, metric_entry, daily_checkin, ret, stale, rd, req, view, now>>

\* The daily_checkin upsert.
TxCheckin(s) ==
    /\ Open(s)
    /\ tx[s].pc = "checkin"
    /\ LET t == tx[s]
           row == [status |-> t.p_status, completion_pct |-> t.v_completion_pct]
       IN  IF CheckinCheckError(row) # OK
           THEN tx' = [tx EXCEPT ![s] = Aborted(t, CheckinCheckError(row))]
           ELSE /\ ~CheckinLocked(s, <<t.p_user_id, t.p_day_id>>)
                /\ tx' = [tx EXCEPT ![s] = [t EXCEPT !.pc = "commit",
                                                     !.w_checkin = Some(row)]]
    /\ UNCHANGED <<metrics, metric_entry, daily_checkin, ret, stale, rd, req, view, now>>

\* RETURN and COMMIT: the writes of the call become visible together.
TxCommit(s) ==
    /\ Open(s)
    /\ tx[s].pc = "commit"
    /\ metric_entry' = Visible(s)
    /\ daily_checkin' = UpsertCheckin(daily_checkin,
                                      <<tx[s].p_user_id, tx[s].p_day_id>>,
                                      Val(tx[s].w_checkin))
    /\ tx' = [tx EXCEPT ![s].pc = "committed"]
    /\ rd' = IF rd.pc = "reading"
             THEN [rd EXCEPT !.views =
                      rd.views \cup {DayView(metric_entry', daily_checkin', "u1", Day1)}]
             ELSE rd
    /\ UNCHANGED <<metrics, ret, stale, req, view, now>>

\* The next upsert of the session waits for a row of the other session.
WaitsFor(s, t) ==
    /\ Open(s) /\ Open(t) /\ s # t
    /\ tx[s].pc = "loop"
    /\ tx[s].i <= Len(tx[s].p_entries)
    /\ EntryKey(tx[s].p_user_id, tx[s].p_entries[tx[s].i].metric_id, tx[s].p_day_id)
          \in DOMAIN tx[t].w_entry

\* Two sessions wait for each other: the database aborts one of them.
TxDeadlock(s) ==
    /\ \E t \in DOMAIN tx : WaitsFor(s, t) /\ WaitsFor(t, s)
    /\ tx' = [tx EXCEPT ![s] = Aborted(tx[s], "deadlock detected")]
    /\ UNCHANGED <<metrics, metric_entry, daily_checkin, ret, stale, rd, req, view, now>>

\* getDayData: Promise.all([getCheckin, getEntries]), two separate queries
\* that the database runs in either order.
RdStart ==
    /\ rd.pc \in {"idle", "done"}
    /\ rd' = [IdleReader EXCEPT !.pc = "reading",
                                !.views = {DayView(metric_entry, daily_checkin, "u1", Day1)}]
    /\ UNCHANGED <<metrics, metric_entry, daily_checkin, ret, stale, tx, req, view, now>>

RdFinish(r) == IF r.got = {"checkin", "entries"} THEN [r EXCEPT !.pc = "done"] ELSE r

\* getCheckin: the committed daily_checkin row of the day, or null.
RdCheckin ==
    /\ rd.pc = "reading"
    /\ "checkin" \notin rd.got
    /\ rd' = RdFinish([rd EXCEPT !.got = rd.got \cup {"checkin"},
                                 !.checkin = DayView(metric_entry, daily_checkin, "u1", Day1)[1]])
    /\ UNCHANGED <<metrics, metric_entry, daily_checkin, ret, stale, tx, req, view, now>>

\* getEntries: the committed metric_entry rows of the day.
RdEntries ==
    /\ rd.pc = "reading"
    /\ "entries" \notin rd.got
    /\ rd' = RdFinish([rd EXCEPT !.got = rd.got \cup {"entries"},
                                 !.entries = DayView(metric_entry, daily_checkin, "u1", Day1)[2]])
    /\ UNCHANGED <<metrics, metric_entry, daily_checkin, ret, stale, tx, req, view, now>>

NextConc ==
    \/ \E s \in Sessions : TxBegin(s)
    \/ \E s \in Sessions : TxEntry(s)
    \/ \E s \in Sessions : TxCountTotal(s)
    \/ \E s \in Sessions : TxCountAnswered(s)
    \/ \E s \in Sessions : TxCheckin(s)
    \/ \E s \in Sessions : TxCommit(s)
    \/ \E s \in Sessions : TxDeadlock(s)
    \/ RdStart
    \/ RdCheckin
    \/ RdEntries

SpecConc == InitConc /\ [][NextConc]_vars

----------------------------------------------------------------------------
\* Calls of the sequential specification and their results in the current state

Args ==
    [auth_uid : Callers, p_user_id : TargetUsers, p_day_id : DayInputs,
     p_status : StatusInputs, p_entries : Batches]

CallOn(db, a) ==
    save_day(db, metrics, a.auth_uid, a.p_user_id, a.p_day_id, a.p_status,
             a.p_entries)

Call(a) == CallOn(Db(metric_entry, daily_checkin), a)

Permuted(a, f) ==
    [a EXCEPT !.p_entries = [i \in DOMAIN a.p_entries |-> a.p_entries[f[i]]]]

SameOutcome(r1, r2) ==
    /\ r1.ok = r2.ok
    /\ r1.ok => /\ r1.metric_entry = r2.metric_entry
                /\ r1.daily_checkin = r2.daily_checkin

\* The value columns of a row that are not NULL.
Populated(row) ==
    {c \in {"bool_value", "int_value", "float_value", "text_value",
            "select_key", "tag_keys"} : NotNull(row[c])}

\* The value column of a metric type.
SlotOf(type) ==
    CASE type = "boolean" -> "bool_value"
      [] type = "rating" -> "int_value"
      [] type = "number" -> "float_value"
      [] type = "notes" -> "text_value"
      [] type = "select" -> "select_key"
      [] type = "tags" -> "tag_keys"

----------------------------------------------------------------------------
\* C1: a save_day call that fails, for whatever reason and after however
\* many entries of the batch were upserted by the loop, leaves metric_entry
\* and daily_checkin as it found them.
FailedCallWritesNothing ==
    [][(ret'.op = "save_day" /\ ~ret'.ok)
          => UNCHANGED <<metric_entry, daily_checkin>>]_vars

\* A call failed on a later entry after the loop had upserted an earlier one.
FailedAfterValidEntry ==
    /\ ret.op = "save_day"
    /\ ~ret.ok
    /\ ret.err = "rating out of range"
    /\ ret.v_saved_count >= 1

\* C5: a call whose caller is unauthenticated or is not p_user_id fails with
\* an authorization error and writes nothing, whatever its status, day id and
\* entries are.
MismatchedCallerRejected ==
    \A a \in Args :
        a.auth_uid # Some(a.p_user_id) =>
            /\ ~Call(a).ok
            /\ Call(a).err \in {"Not authenticated", "Cannot save data for another user"}
            /\ Call(a).metric_entry = metric_entry
            /\ Call(a).daily_checkin = daily_checkin

\* Another user's call was rejected while the target user has stored data.
RejectedOtherUser ==
    /\ ret.op = "save_day"
    /\ ret.err = "Cannot save data for another user"
    /\ metric_entry # Empty

\* C7: a successful call repeated with the same arguments succeeds again,
\* returns the same completion_pct and leaves the tables of the first call.
ResubmitIsIdempotent ==
    \A a \in Args :
        Call(a).ok =>
            LET r1 == Call(a)
                r2 == CallOn(Db(r1.metric_entry, r1.daily_checkin), a)
            IN  /\ r2.ok
                /\ r2.completion_pct = r1.completion_pct
                /\ r2.metric_entry = r1.metric_entry
                /\ r2.daily_checkin = r1.daily_checkin

\* A batch of two entries was saved, and saving it again changes nothing.
ResubmittedBatch ==
    /\ ret.op = "save_day"
    /\ ret.ok
    /\ ret.v_saved_count = 2
    /\ \E a \in Args :
          /\ a.p_day_id = ret.day_id
          /\ a.p_status = ret.status
          /\ Len(a.p_entries) = 2
          /\ MetricIds(a.p_entries) = ret.metric_ids
          /\ Call(a).ok
          /\ Call(a).metric_entry = metric_entry
          /\ Call(a).daily_checkin = daily_checkin

\* C9: every stored metric_entry row has exactly one value column populated,
\* the one of the type of its metric.
ExactlyTheTypedSlot ==
    \A k \in DOMAIN metric_entry :
        Populated(metric_entry[k]) = {SlotOf(metrics[k[2]].type)}

\* C10 as stated: every permutation of every batch has the same outcome.
OrderNeverMatters ==
    \A a \in Args :
        \A f \in Permutations(DOMAIN a.p_entries) :
            SameOutcome(Call(a), Call(Permuted(a, f)))

NoConflictingDuplicates(p_entries) ==
    \A i, j \in DOMAIN p_entries :
        p_entries[i].metric_id = p_entries[j].metric_id => p_entries[i] = p_entries[j]

\* C10 as amended: every permutation of a batch in which no two entries have
\* the same metric_id and different values has the same outcome.
OrderOfDistinctMetricsIrrelevant ==
    \A a \in Args :
        NoConflictingDuplicates(a.p_entries) =>
            \A f \in Permutations(DOMAIN a.p_entries) :
                SameOutcome(Call(a), Call(Permuted(a, f)))

\* A batch with entries for two different metrics was saved.
SavedTwoMetrics ==
    /\ ret.op = "save_day"
    /\ ret.ok
    /\ Cardinality(ret.metric_ids) = 2
    /\ \A id \in ret.metric_ids : <<ret.user_id, id, ret.day_id>> \in DOMAIN metric_entry

\* The active required metrics of a user.
RequiredActive(u) ==
    {id \in DOMAIN metrics :
        /\ metrics[id].user_id = u
        /\ metrics[id].is_required
        /\ IsNull(metrics[id].archived_at)}

\* p is x rounded to the nearest integer, a tie rounded up, for x = 100 * a / t.
IsRoundHalfUp(p, a, t) ==
    /\ 2 * p * t <= 200 * a + t
    /\ 200 * a + t < 2 * (p + 1) * t

\* C2: after a successful call the returned and the stored completion_pct
\* are 100 when the user has no active required metric, and otherwise
\* 100 * answered / total rounded half up, over the user's active required
\* metrics and those of them with a stored entry for the day.
CompletionFollowsFormula ==
    (ret.op = "save_day" /\ ret.ok) =>
        LET key == <<ret.user_id, ret.day_id>>
            required == RequiredActive(ret.user_id)
            answered == {id \in required :
                            <<ret.user_id, id, ret.day_id>> \in DOMAIN metric_entry}
        IN  /\ key \in DOMAIN daily_checkin
            /\ daily_checkin[key].completion_pct = ret.completion_pct
            /\ IF required = {}
               THEN ret.completion_pct = 100
               ELSE IsRoundHalfUp(ret.completion_pct, Cardinality(answered),
                                  Cardinality(required))

\* Five of eight required metrics are answered: 62.5 is stored as 63.
RoundedTieUp ==
    /\ ret.op = "save_day"
    /\ ret.ok
    /\ Cardinality(RequiredActive("u1")) = 8
    /\ ret.completion_pct = 63
    /\ daily_checkin[<<"u1", Day1>>].completion_pct = 63

\* C6: a required metric that has an entry for the day from an earlier call
\* counts in a call whose batch does not contain it; with the rating metric
\* the only required one and stored by a draft call, a submitted call with
\* only the boolean entry returns 100 and 1 and leaves status submitted.
EarlierAnswersStillCount ==
    \A a \in RegArgs :
        LET r == Call(a)
            required == RequiredActive(a.p_user_id)
            carried == {id \in required \ MetricIds(a.p_entries) :
                           <<a.p_user_id, id, a.p_day_id>> \in DOMAIN metric_entry}
            answered == carried \cup (required \cap MetricIds(a.p_entries))
            key == <<a.p_user_id, a.p_day_id>>
        IN  r.ok =>
              /\ required # {} =>
                    IsRoundHalfUp(r.completion_pct, Cardinality(answered),
                                  Cardinality(required))
              /\ ( /\ required = {1}
                   /\ carried = {1}
                   /\ IsNull(metrics[2].archived_at)
                   /\ key \in DOMAIN daily_checkin
                   /\ daily_checkin[key].status = "draft"
                   /\ a.p_status = "submitted"
                   /\ a.p_entries = <<BoolEntry(2, TRUE)>> )
                 => /\ r.completion_pct = 100
                    /\ r.v_saved_count = 1
                    /\ r.daily_checkin[key] = [status |-> "submitted", completion_pct |-> 100]

\* The submitted call with only the boolean entry has run after the rating
\* was stored by an earlier call.
BooleanSavedAfterRating ==
    /\ ret.op = "save_day"
    /\ ret.ok
    /\ ret.metric_ids = {2}
    /\ ret.v_saved_count = 1
    /\ ret.status = "submitted"
    /\ ret.completion_pct = 100
    /\ RequiredActive("u1") = {1}
    /\ <<"u1", 1, Day1>> \in DOMAIN metric_entry
    /\ daily_checkin[<<"u1", Day1>>] = [status |-> "submitted", completion_pct |-> 100]

Serial(t1, t2) ==
    LET r1 == save_day(Db(Empty, Empty), metrics, Some(t1.p_user_id), t1.p_user_id,
                       t1.p_day_id, t1.p_status, t1.p_entries)
        r2 == save_day(Db(r1.metric_entry, r1.daily_checkin), metrics,
                       Some(t2.p_user_id), t2.p_user_id, t2.p_day_id, t2.p_status,
                       t2.p_entries)
    IN  Db(r2.metric_entry, r2.daily_checkin)

\* C3: once two concurrent calls for the same day have both committed, the
\* tables are those of the two calls run one after the other in some order,
\* and the stored completion_pct is the formula applied to the stored rows.
ConcurrentCallsSerialize ==
    (DOMAIN tx = Sessions /\ \A s \in Sessions : tx[s].pc = "committed") =>
        LET required == RequiredActive("u1")
            answered == {id \in required : <<"u1", id, Day1>> \in DOMAIN metric_entry}
        IN  /\ Db(metric_entry, daily_checkin)
                  \in {Serial(tx["s1"], tx["s2"]), Serial(tx["s2"], tx["s1"])}
            /\ IsRoundHalfUp(daily_checkin[<<"u1", Day1>>].completion_pct,
                             Cardinality(answered), Cardinality(required))

\* C4: what getDayData returns for a day is a state of the day that was
\* committed while it ran: entries never come without the check-in that was
\* written with them.
ReaderSeesCommittedDay ==
    rd.pc = "done" =>
        /\ <<rd.checkin, rd.entries>> \in rd.views
        /\ rd.entries # Empty => NotNull(rd.checkin)

\* C11: after a successful call the stored status of the day is the p_status
\* of the call, whatever status the day had before: a successful draft call
\* on a day stored as submitted leaves it draft.
StatusIsOverwritten ==
    /\ (ret.op = "save_day" /\ ret.ok) =>
          /\ <<ret.user_id, ret.day_id>> \in DOMAIN daily_checkin
          /\ daily_checkin[<<ret.user_id, ret.day_id>>].status = ret.status
    /\ \A a \in Args :
          Call(a).ok =>
              Call(a).daily_checkin[<<a.p_user_id, a.p_day_id>>].status = a.p_status

\* The day is stored as submitted and a draft call on it succeeds.
DraftAfterSubmitted ==
    /\ <<"u1", Day1>> \in DOMAIN daily_checkin
    /\ daily_checkin[<<"u1", Day1>>].status = "submitted"
    /\ \E a \in Args :
          /\ a.p_user_id = "u1" /\ a.p_day_id = Day1 /\ a.p_status = "draft"
          /\ Call(a).ok
          /\ Call(a).daily_checkin[<<"u1", Day1>>].status = "draft"

\* The metric id is not one of an active metric of the user.
NotResolvable(u, id) ==
    \/ id \notin DOMAIN metrics
    \/ metrics[id].user_id # u
    \/ NotNull(metrics[id].archived_at)

\* C12: a call with an entry whose metric_id does not exist, is a metric of
\* another user or is an archived metric fails, the exception names the
\* metric id of the first such entry, and the tables are left unchanged.
UnresolvedMetricAbortsCall ==
    \A a \in LookupArgs :
        LET bad == {i \in DOMAIN a.p_entries :
                       NotResolvable(a.p_user_id, a.p_entries[i].metric_id)}
            first == CHOOSE i \in bad : \A j \in bad : i <= j
            r == Call(a)
        IN  bad # {} =>
              /\ ~r.ok
              /\ r.err = "metric not found or archived"
              /\ r.err_metric_id = Some(a.p_entries[first].metric_id)
              /\ r.metric_entry = metric_entry
              /\ r.daily_checkin = daily_checkin

\* With metric 1 archived and data stored for the day, a call failed on an
\* unresolved metric after an earlier entry of its batch was upserted, and
\* single entries for the archived metric, the metric of u2 and the unknown
\* id each fail naming their metric.
FailedOnUnresolvedMetric ==
    /\ ret.op = "save_day"
    /\ ret.err = "metric not found or archived"
    /\ ret.v_saved_count >= 1
    /\ NotNull(metrics[1].archived_at)
    /\ metric_entry # Empty
    /\ \A id \in {1, 4, 9} :
          \E a \in LookupArgs :
              /\ Len(a.p_entries) = 1
              /\ a.p_entries[1].metric_id = id
              /\ ~Call(a).ok
              /\ Call(a).err_metric_id = Some(id)

\* C13: a successful call returns as saved_count the number of entries of
\* its batch, 0 for an empty batch, and whatever the batch size it leaves
\* one daily_checkin row for its (user, day) and the rows of the other days
\* as they were.
SavedCountIsBatchSize ==
    \A a \in DaysArgs :
        LET r == Call(a)
            key == <<a.p_user_id, a.p_day_id>>
        IN  r.ok =>
              /\ r.v_saved_count = Len(a.p_entries)
              /\ DOMAIN r.daily_checkin = DOMAIN daily_checkin \cup {key}
              /\ \A k \in DOMAIN daily_checkin \ {key} :
                    r.daily_checkin[k] = daily_checkin[k]

\* An empty batch was saved and returned 0 while another day has a check-in
\* and the day has a stored entry; a batch of two entries for the stored
\* metric succeeds on it.
EmptyBatchSaved ==
    /\ ret.op = "save_day"
    /\ ret.ok
    /\ ret.v_saved_count = 0
    /\ ret.metric_ids = {}
    /\ <<ret.user_id, ret.day_id>> \in DOMAIN daily_checkin
    /\ Cardinality(DOMAIN daily_checkin) >= 2
    /\ <<ret.user_id, 1, ret.day_id>> \in DOMAIN metric_entry
    /\ \E a \in DaysArgs :
          /\ a.p_day_id = ret.day_id
          /\ a.p_entries = <<IntEntry(1, 8), IntEntry(1, 8)>>
          /\ Call(a).ok
          /\ Call(a).v_saved_count = 2

\* The option keys of a config; none when the options are missing.
OptionKeys(v_config) ==
    IF IsNull(v_config.options) THEN {} ELSE SetOf(Val(v_config.options))

\* C14: every stored select_key of a select metric and every stored tag key
\* of a tags metric is one of the option keys of the metric, whatever the
\* options of the metric are, an empty or missing list included.
StoredKeysAreOptionKeys ==
    \A k \in DOMAIN metric_entry :
        LET v_metric == metrics[k[2]]
            row == metric_entry[k]
        IN  /\ v_metric.type = "select" =>
                  Val(row.select_key) \in OptionKeys(v_metric.config)
            /\ v_metric.type = "tags" =>
                  SetOf(Val(row.tag_keys)) \subseteq OptionKeys(v_metric.config)

\* The config of the metric has the shape its type requires.
HasConfigShape(v_metric) ==
    CASE v_metric.type = "rating" ->
           NotNull(v_metric.config.scaleMin) /\ NotNull(v_metric.config.scaleMax)
      [] v_metric.type \in {"select", "tags"} -> NotNull(v_metric.config.options)
      [] OTHER -> TRUE

\* C15: a call with an entry for a metric whose config does not have the
\* shape of its type fails and leaves the tables unchanged, whatever value
\* the entry carries.
MalformedConfigRejected ==
    \A a \in ConfigArgs :
        (\E i \in DOMAIN a.p_entries :
            /\ a.p_entries[i].metric_id \in DOMAIN metrics
            /\ ~HasConfigShape(metrics[a.p_entries[i].metric_id]))
        => /\ ~Call(a).ok
           /\ Call(a).metric_entry = metric_entry
           /\ Call(a).daily_checkin = daily_checkin

\* The entry carries an integer inside the configured scale of its metric.
InConfiguredScale(v_entry) ==
    /\ NotNull(v_entry.int_value)
    /\ Val(metrics[v_entry.metric_id].config.scaleMin) <= Val(v_entry.int_value)
    /\ Val(v_entry.int_value) <= Val(metrics[v_entry.metric_id].config.scaleMax)

\* C16: a call with entries for rating metrics succeeds exactly if every
\* entry has an int_value with scaleMin <= int_value <= scaleMax of its
\* metric; otherwise it fails with a validation error and writes nothing,
\* and a single entry 11 on the scale 1-10 fails as out of range.
RatingAcceptedIffInScale ==
    \A a \in RatingArgs :
        LET r == Call(a)
        IN  /\ r.ok <=> \A i \in DOMAIN a.p_entries : InConfiguredScale(a.p_entries[i])
            /\ ~r.ok =>
                  /\ r.err \in {"requires int_value", "rating out of range"}
                  /\ r.metric_entry = metric_entry
                  /\ r.daily_checkin = daily_checkin
            /\ a.p_entries = <<IntEntry(1, 11)>> => r.err = "rating out of range"

\* The day holds the upper bound of the scale 1-10 and the lower bound of
\* the scale 3-5, and the last call failed on a value out of range.
BoundsStoredThenOutOfRange ==
    /\ ret.op = "save_day"
    /\ ret.err = "rating out of range"
    /\ <<"u1", 1, Day1>> \in DOMAIN metric_entry
    /\ metric_entry[<<"u1", 1, Day1>>].int_value = Some(10)
    /\ <<"u1", 7, Day1>> \in DOMAIN metric_entry
    /\ metric_entry[<<"u1", 7, Day1>>].int_value = Some(3)

\* The entry of a notes metric carries a text of 1 to 2000 characters; the
\* entry of another metric carries no text of more than 2000 characters.
TextAcceptable(v_entry) ==
    IF metrics[v_entry.metric_id].type = "notes"
    THEN /\ NotNull(v_entry.text_value)
         /\ 1 <= Len(Val(v_entry.text_value))
         /\ Len(Val(v_entry.text_value)) <= 2000
    ELSE IsNull(v_entry.text_value) \/ Len(Val(v_entry.text_value)) <= 2000

\* C17: a call succeeds exactly if the text of every notes entry is present
\* with 1 to 2000 characters (an empty text and 2001 characters fail, 'ok'
\* and 2000 characters succeed) and otherwise writes nothing; every stored
\* text_value of a notes metric has 1 to 2000 characters.
NotesAcceptedIffLength ==
    /\ \A a \in NotesArgs :
          LET r == Call(a)
          IN  /\ r.ok <=> \A i \in DOMAIN a.p_entries : TextAcceptable(a.p_entries[i])
              /\ ~r.ok => r.metric_entry = metric_entry /\ r.daily_checkin = daily_checkin
              /\ a.p_entries = <<TextEntry(6, <<>>)>> => r.err = "requires text_value"
              /\ a.p_entries = <<TextEntry(6, TextOfLength(2001))>> => r.err = "notes too long"
              /\ a.p_entries \in {<<TextEntry(6, <<"o", "k">>)>>,
                                  <<TextEntry(6, TextOfLength(2000))>>} => r.ok
    /\ \A k \in DOMAIN metric_entry :
          metrics[k[2]].type = "notes" =>
              /\ NotNull(metric_entry[k].text_value)
              /\ Len(Val(metric_entry[k].text_value)) \in 1..2000

\* A text of 2000 characters is stored, the last call failed on a text
\* that is too long, and a call with 'ok' succeeds.
LongestNotesStored ==
    /\ ret.op = "save_day"
    /\ ret.err = "notes too long"
    /\ <<"u1", 6, Day1>> \in DOMAIN metric_entry
    /\ Len(Val(metric_entry[<<"u1", 6, Day1>>].text_value)) = 2000
    /\ \E a \in NotesArgs :
          /\ a.p_entries = <<TextEntry(6, <<"o", "k">>)>>
          /\ Call(a).ok
          /\ Call(a).metric_entry[<<"u1", 6, Day1>>].text_value = Some(<<"o", "k">>)

\* C18: a call with valid entries succeeds for each day id of four digits,
\* a dash, two digits, a dash, two digits, 2025-02-30 and 2025-13-40
\* included, and stores the day under that id; for a day id of another shape
\* it fails as an invalid day_id format and writes nothing.
DayIdShapeDecides ==
    /\ \A a \in DaysArgs :
          LET r == Call(a)
              key == <<a.p_user_id, a.p_day_id>>
          IN  /\ a.p_day_id \in {Day1, Day2, Day3} =>
                    /\ r.ok
                    /\ key \in DOMAIN r.daily_checkin
                    /\ \A i \in DOMAIN a.p_entries :
                          <<a.p_user_id, a.p_entries[i].metric_id, a.p_day_id>>
                              \in DOMAIN r.metric_entry
              /\ a.p_day_id \in {DayBad, DayLetter, DaySlash, DayLong} =>
                    /\ ~r.ok
                    /\ r.err = "Invalid day_id format"
                    /\ r.metric_entry = metric_entry
                    /\ r.daily_checkin = daily_checkin
    /\ \A k \in DOMAIN daily_checkin : k[2] \in {Day1, Day2, Day3}
    /\ \A k \in DOMAIN metric_entry : k[3] \in {Day1, Day2, Day3}

\* 2025-02-30 and 2025-13-40 are stored as days of their own, with entries
\* the day 2025-01-15 does not have, and the last call failed on a
\* malformed day id.
CalendarInvalidDaysStored ==
    /\ ret.op = "save_day"
    /\ ret.err = "Invalid day_id format"
    /\ {<<"u1", Day2>>, <<"u1", Day3>>} \subseteq DOMAIN daily_checkin
    /\ <<"u1", 1, Day2>> \in DOMAIN metric_entry
    /\ <<"u1", 2, Day3>> \in DOMAIN metric_entry
    /\ <<"u1", 1, Day1>> \notin DOMAIN metric_entry

\* C19: every stored daily_checkin row has status draft or submitted and a
\* completion_pct from 0 to 100; a call with another status fails, for the
\* owner as an invalid status, and writes nothing.
CheckinsWellFormed ==
    /\ \A k \in DOMAIN daily_checkin :
          /\ daily_checkin[k].status \in {"draft", "submitted"}
          /\ daily_checkin[k].completion_pct \in 0..100
    /\ \A a \in Args :
          a.p_status \notin {"draft", "submitted"} =>
              /\ ~Call(a).ok
              /\ a.auth_uid = Some(a.p_user_id) => Call(a).err = "Invalid status"
              /\ Call(a).metric_entry = metric_entry
              /\ Call(a).daily_checkin = daily_checkin

\* A call with an invalid status failed on a day stored as submitted.
InvalidStatusRejected ==
    /\ ret.op = "save_day"
    /\ ret.err = "Invalid status"
    /\ <<"u1", Day1>> \in DOMAIN daily_checkin
    /\ daily_checkin[<<"u1", Day1>>].status = "submitted"
    /\ metric_entry # Empty

\* C20: a successful call computes completion_pct over the metrics that are
\* active and required when it runs: a required metric archived after it was
\* answered for the day counts neither as required nor as answered.
ArchivedMetricNotCounted ==
    \A a \in RegArgs :
        LET r == Call(a)
            required == RequiredActive(a.p_user_id)
            answered == {id \in required :
                            <<a.p_user_id, id, a.p_day_id>> \in DOMAIN r.metric_entry}
            archivedAnswered ==
                {id \in DOMAIN metrics :
                    /\ metrics[id].user_id = a.p_user_id
                    /\ metrics[id].is_required
                    /\ NotNull(metrics[id].archived_at)
                    /\ <<a.p_user_id, id, a.p_day_id>> \in DOMAIN metric_entry}
        IN  (r.ok /\ archivedAnswered # {}) =>
                IF required = {}
                THEN r.completion_pct = 100
                ELSE /\ IsRoundHalfUp(r.completion_pct, Cardinality(answered),
                                      Cardinality(required))
                     /\ answered = {} => r.completion_pct = 0

\* The rating metric was answered and then archived; a later call that left
\* the tags metric, the only active required one, unanswered returned 0.
SavedAfterArchiving ==
    /\ ret.op = "save_day"
    /\ ret.ok
    /\ NotNull(metrics[1].archived_at)
    /\ <<"u1", 1, Day1>> \in DOMAIN metric_entry
    /\ RequiredActive("u1") = {3}
    /\ <<"u1", 3, Day1>> \notin DOMAIN metric_entry
    /\ ret.completion_pct = 0
    /\ daily_checkin[<<"u1", Day1>>].completion_pct = 0

\* C21: archiving or unarchiving a metric and toggling its required flag
\* leave every daily_checkin and metric_entry row as it was; a daily_checkin
\* row changes only in a successful save_day call for its (user, day).
CompletionIsSnapshot ==
    [][ /\ ret'.op = "updateMetrics" => UNCHANGED <<metric_entry, daily_checkin>>
        /\ \A k \in DOMAIN daily_checkin' :
              (k \notin DOMAIN daily_checkin \/ daily_checkin'[k] # daily_checkin[k])
                  => /\ ret'.op = "save_day"
                     /\ ret'.ok
                     /\ k = <<ret'.user_id, ret'.day_id>>
        /\ DOMAIN daily_checkin \subseteq DOMAIN daily_checkin' ]_vars

\* A metric was changed last, and the stored completion_pct of the day is
\* no longer the percentage of the day under the metrics as they are now.
SnapshotIsStale ==
    /\ ret.op = "updateMetrics"
    /\ <<"u1", Day1>> \in DOMAIN daily_checkin
    /\ <<"u1", Day1>> \in stale
    /\ daily_checkin[<<"u1", Day1>>].completion_pct #
           CompletionPct(AnsweredRequired(metrics, metric_entry, "u1", Day1),
                         TotalRequired(metrics, "u1"))

\* C22: a successful call deletes no metric_entry row, leaves every
\* metric_entry row unchanged whose (user, metric, day) is not the key of an
\* entry of its batch, and leaves the daily_checkin rows of the other days
\* unchanged.
SaveTouchesOnlyItsKeys ==
    \A a \in DaysArgs :
        LET r == Call(a)
            targeted == {EntryKey(a.p_user_id, a.p_entries[i].metric_id, a.p_day_id) :
                            i \in DOMAIN a.p_entries}
        IN  r.ok =>
              /\ DOMAIN metric_entry \subseteq DOMAIN r.metric_entry
              /\ DOMAIN r.metric_entry \ DOMAIN metric_entry \subseteq targeted
              /\ \A k \in DOMAIN metric_entry \ targeted :
                    r.metric_entry[k] = metric_entry[k]
              /\ \A k \in DOMAIN daily_checkin :
                    k # <<a.p_user_id, a.p_day_id>> =>
                        /\ k \in DOMAIN r.daily_checkin
                        /\ r.daily_checkin[k] = daily_checkin[k]

\* The boolean entry was saved for a day that already had the rating, while
\* another day has both entries and its own check-in.
SavedNextToOtherRows ==
    /\ ret.op = "save_day"
    /\ ret.ok
    /\ ret.day_id = Day1
    /\ ret.metric_ids = {2}
    /\ {<<"u1", 1, Day1>>, <<"u1", 2, Day1>>, <<"u1", 1, Day2>>, <<"u1", 2, Day2>>}
          \subseteq DOMAIN metric_entry
    /\ <<"u1", Day2>> \in DOMAIN daily_checkin

\* C23: whatever p_user_id and metric ids an authenticated caller passes, a
\* call creates or changes only metric_entry and daily_checkin rows of the
\* caller, and every stored entry is one for a metric of the owner of the row.
CallerWritesOwnRowsOnly ==
    /\ \A a \in OwnerArgs :
          LET r == Call(a)
              caller == Val(a.auth_uid)
          IN  /\ \A k \in DOMAIN r.metric_entry :
                    (k \notin DOMAIN metric_entry \/ r.metric_entry[k] # metric_entry[k])
                        => k[1] = caller
              /\ \A k \in DOMAIN r.daily_checkin :
                    (k \notin DOMAIN daily_checkin \/ r.daily_checkin[k] # daily_checkin[k])
                        => k[1] = caller
              /\ DOMAIN metric_entry \subseteq DOMAIN r.metric_entry
              /\ DOMAIN daily_checkin \subseteq DOMAIN r.daily_checkin
              /\ a.p_user_id # caller => ~r.ok
    /\ \A k \in DOMAIN metric_entry : metrics[k[2]].user_id = k[1]

\* Both users have stored entries of their own, and the last call failed on
\* an entry for a metric of the other user.
CrossUserEntryRejected ==
    /\ ret.op = "save_day"
    /\ ret.err = "metric not found or archived"
    /\ <<"u1", 1, Day1>> \in DOMAIN metric_entry
    /\ <<"u2", 4, Day1>> \in DOMAIN metric_entry
    /\ \E a \in OwnerArgs :
          /\ a.auth_uid = Some("u2")
          /\ a.p_user_id = "u1"
          /\ Call(a).err = "Cannot save data for another user"

\* C24: a request the middleware handles for a path other than /login and
\* /auth/callback without a user is redirected to /login; /login without a
\* user and /auth/callback are served; /login with a user is redirected to
\* /; following redirects ends after at most one hop.
RoutesProtected ==
    req # Empty =>
        /\ (req.handled /\ IsNull(req.user)
               /\ req.pathname \notin {LoginPath, AuthCallbackPath})
              => req.kind = "redirect" /\ req.location = LoginPath
        /\ (req.pathname = LoginPath /\ IsNull(req.user)) => req.kind = "next"
        /\ req.pathname = AuthCallbackPath => req.kind = "next"
        /\ (req.pathname = LoginPath /\ NotNull(req.user))
              => req.kind = "redirect" /\ req.location = RootPath
        /\ req.hops <= 1
        /\ req.hops = 1 => req.kind = "next"

\* A request for /capture without a user was redirected, and /login was
\* served with the next parameter set.
RedirectedToLogin ==
    /\ req # Empty
    /\ req.hops = 1
    /\ IsNull(req.user)
    /\ req.pathname = LoginPath
    /\ req.search.next = Some(Path(<<"capture">>, ""))
    /\ req.kind = "next"

\* C25: no step creates or modifies a metric_entry or daily_checkin row of a
\* day d unless 0 <= today - d < 7.
WritesWithinEditWindow ==
    [][/\ \A k \in DOMAIN metric_entry' :
             (k \notin DOMAIN metric_entry \/ metric_entry'[k] # metric_entry[k])
                => canEditDay(k[3], now)
       /\ \A k \in DOMAIN daily_checkin' :
             (k \notin DOMAIN daily_checkin \/ daily_checkin'[k] # daily_checkin[k])
                => canEditDay(k[2], now)]_vars

\* C26: the view that opens without a day parameter shows yesterday when
\* yesterday's check-in is absent or a draft and today when it is submitted;
\* with a day parameter it shows that day; getDefaultDayId makes the same
\* choice.
YesterdayFirst ==
    [][ret'.op = "initializeData" =>
         LET yesterday == FormatDay(now - 1)
             submitted == /\ <<view'.userId, yesterday>> \in DOMAIN daily_checkin
                          /\ daily_checkin[<<view'.userId, yesterday>>].status = "submitted"
         IN  /\ NotNull(view'.dayParam) => view'.currentDayId = Val(view'.dayParam)
             /\ (IsNull(view'.dayParam) /\ ~submitted) => view'.currentDayId = yesterday
             /\ (IsNull(view'.dayParam) /\ submitted) => view'.currentDayId = FormatDay(now)
             /\ IsNull(view'.dayParam)
                  => view'.currentDayId = getDefaultDayId(daily_checkin, view'.userId, now)]_vars

\* The view opened without a day parameter after yesterday was submitted
\* and shows today.
TodayShownAfterSubmit ==
    /\ ret.op = "initializeData"
    /\ view # Empty
    /\ IsNull(view.dayParam)
    /\ <<"u1", FormatDay(now - 1)>> \in DOMAIN daily_checkin
    /\ daily_checkin[<<"u1", FormatDay(now - 1)>>].status = "submitted"
    /\ view.currentDayId = FormatDay(now)

\* C29: a successful save from the view stores the percentage the view
\* displays.
DisplayedPctIsStored ==
    [][(ret'.op = "handleSave" /\ ret'.ok)
         => view.completionPct =
              daily_checkin'[<<view.userId, view.currentDayId>>].completion_pct]_vars

IsSubmitted(day) ==
    /\ <<"u1", FormatDay(day)>> \in DOMAIN daily_checkin
    /\ daily_checkin[<<"u1", FormatDay(day)>>].status = "submitted"

RECURSIVE RunEndingAt(_)
RunEndingAt(day) ==
    IF day >= 1 /\ IsSubmitted(day) THEN 1 + RunEndingAt(day - 1) ELSE 0

\* C27: the streak is the number of consecutive submitted days ending at
\* today, or ending at yesterday when today is not submitted (absent or a
\* draft); it is 0 when neither is submitted.
StreakCountsRun ==
    getCompletionStreak(daily_checkin, "u1", now) =
        IF IsSubmitted(now) THEN RunEndingAt(now) ELSE RunEndingAt(now - 1)

\* C28: every metric_entry row of a (user, day) has a daily_checkin row of
\* the same (user, day), after successful and failed calls alike.
EntriesHaveCheckin ==
    \A k \in DOMAIN metric_entry : <<k[1], k[3]>> \in DOMAIN daily_checkin

\* A call failed after its loop had upserted an entry, next to entries an
\* earlier call stored.
FailedAfterUpsertNextToEntries ==
    /\ ret.op = "save_day"
    /\ ~ret.ok
    /\ ret.v_saved_count >= 1
    /\ metric_entry # Empty

\* C30: a user has at most one active metric of any name.
OneActiveMetricPerName ==
    \A a, b \in DOMAIN metrics :
        (/\ metrics[a].user_id = metrics[b].user_id
         /\ metrics[a].name = metrics[b].name
         /\ IsNull(metrics[a].archived_at)
         /\ IsNull(metrics[b].archived_at)) => a = b

====
